---- MODULE Spec2Model ----
(***************************************************************************)
(* Model of sps.c, a batch spreadsheet processor: a delimited text table   *)
(* is loaded from a file, a list of selector and editing commands is run   *)
(* against it, and the table is written back.                              *)
(*                                                                         *)
(* C strings are sequences of one-character strings; the NULL pointer is   *)
(* the distinguished value NULL.  Row storage is modelled at the level of  *)
(* the C heap: a row slot holds a pointer to a block of cells, so that two *)
(* slots pointing to one block (and pointers to released blocks) can be    *)
(* expressed.                                                              *)
(***************************************************************************)
EXTENDS Integers, Sequences, FiniteSets, TLC

VARIABLES
    pc,               \* position in main: "args", "start", "exec", "failed", "exit", "undefined"
    raw_commands,     \* the command string (argv "CMD_SEQUENCE"), NULL when the run draws its commands one by one
    base_commands_store, \* the Base_commands that parse_commands filled
    delims,           \* the delimiter string (argv "-d DELIMS")
    infile,           \* bytes of the input file when the program starts
    outfile,          \* bytes written to the output path, NULL when never written
    table,            \* the Table structure together with the heap of cell blocks
    selector,         \* current selection (Raw_selector)
    temp_selector,    \* saved selection (Raw_selector)
    temp_var_store,   \* the ten temporary variables
    c_comm,           \* the Base_command taken up last, as parse_commands left it
    i,                \* loop index of execute_commands
    ret_val,          \* ret_val of execute_commands
    error_flag        \* exit code of the process, -1 while it runs

vars == <<pc, raw_commands, base_commands_store, delims, infile, outfile, table, selector, temp_selector,
          temp_var_store, c_comm, i, ret_val, error_flag>>

-----------------------------------------------------------------------------
(* Bounds of the model *)

MaxFileLen == 5       \* longest input file, in bytes, of the load specification
MaxCmds == 3          \* longest command list of the command specification
MaxSelCmds == 2       \* longest command list of the selector specification
MaxFindCmds == 3      \* longest command list of the find/min/max specification
MaxEditCmds == 3      \* longest command list of the row/column specification
MaxDataCmds == 3      \* longest command list of the data command specification
MaxNumCmds == 3       \* longest command list of the number format specification
MaxVarCmds == 4       \* longest command list of the temporary variable specification
MaxRawLen == 4        \* longest command string, in bytes, of the command parsing specification
MaxAllocCmds == 2     \* longest command list of the allocation specification
MaxMemory == 14       \* most requests that malloc and realloc grant in the allocation specification
MaxCellCmds == 2      \* longest command list of the cell argument specification
MaxPartCmds == 2      \* longest command list of the selector parts specification

-----------------------------------------------------------------------------
(* Program constants *)

NO_ERROR == 0
MISSING_ARGS == 1
INVALID_DELIMITER == 2
CANT_OPEN_FILE == 3
ALLOCATION_FAILED == 4
FUNCTION_ERROR == 5
FUNCTION_ARGUMENT_ERROR == 6
VALUE_ERROR == 7
COMMAND_ERROR == 8
SELECTOR_ERROR == 9
NUM_CONVERSION_FAILED == 10

BASE_NUMBER_OF_ROWS == 3
BASE_NUMBER_OF_CELLS == 3
BASE_CELL_LENGTH == 6
NUMBER_OF_TEMPORARY_VARIABLES == 10

DEBUG == TRUE                     \* "#define DEBUG" is present in the source
EMPTY_CELL == <<>>
DEFAULT_DELIM == <<" ">>
BLACKLISTED_DELIMS == <<"'", "\"", "\\">>

NULL == <<"NULL">>                \* the NULL char pointer

-----------------------------------------------------------------------------
(* String helpers *)

Min(a, b) == IF a < b THEN a ELSE b
Max(a, b) == IF a > b THEN a ELSE b

\* strlen-based suffix of a string starting at 1-based position p
Tail_from(s, p) == IF p > Len(s) THEN <<>> ELSE SubSeq(s, p, Len(s))

strings_equal(s1, s2) ==
    IF s1 = NULL /\ s2 = NULL THEN TRUE
    ELSE IF s1 = NULL \/ s2 = NULL THEN FALSE
    ELSE s1 = s2

string_start_with(base_string, start_string) ==
    IF Len(start_string) > Len(base_string) THEN FALSE
    ELSE SubSeq(base_string, 1, Len(start_string)) = start_string

\* strrchr(base, end[0]) followed by strcmp of the tail with end_string;
\* for an empty end_string strrchr looks for the terminating NUL
string_end_with(base_string, end_string) ==
    IF end_string = <<>> THEN TRUE
    ELSE LET ps == {p \in 1..Len(base_string) : base_string[p] = end_string[1]}
         IN IF ps = {} THEN FALSE
            ELSE LET last == CHOOSE p \in ps : \A q \in ps : q <= p
                 IN Tail_from(base_string, last) = end_string

\* trim_se: drop the first and the last character
trim_se(string) ==
    IF Len(string) > 1 THEN SubSeq(string, 2, Len(string) - 1) ELSE <<>>

\* trim_start: drop the first character
trim_start(string) ==
    IF Len(string) > 1 THEN SubSeq(string, 2, Len(string)) ELSE <<>>

\* With(v, LAMBDA x : e) is e with x standing for the value v: a local
\* variable of the C function that is assigned once
With(v, In(_)) == In(v)

-----------------------------------------------------------------------------
(* Numeric conversion: strtoll, strtold, printf("%Lg"), printf("%li")          *)
(* Hexadecimal floats are outside the model: no text of the model holds the   *)
(* letters they need.                                                          *)

IsSpace(c) == c \in {" ", "\t", "\n", "\r", "\f"}
IsDigit(c) == c \in {"0", "1", "2", "3", "4", "5", "6", "7", "8", "9"}
DigitVal(c) ==
    CASE c = "0" -> 0 [] c = "1" -> 1 [] c = "2" -> 2 [] c = "3" -> 3 [] c = "4" -> 4
      [] c = "5" -> 5 [] c = "6" -> 6 [] c = "7" -> 7 [] c = "8" -> 8 [] c = "9" -> 9
DigitChar(d) == <<"0", "1", "2", "3", "4", "5", "6", "7", "8", "9">>[d + 1]

RECURSIVE Pow10(_)
Pow10(n) == IF n <= 0 THEN 1 ELSE 10 * Pow10(n - 1)

RECURSIVE Gcd(_, _)
Gcd(a, b) == IF b = 0 THEN a ELSE Gcd(b, a % b)

Abs(n) == IF n < 0 THEN -n ELSE n

\* 1-based position of the first character at or after k that is no white space
RECURSIVE SkipSpace(_, _)
SkipSpace(s, k) == IF k <= Len(s) /\ IsSpace(s[k]) THEN SkipSpace(s, k + 1) ELSE k

\* position after the optional sign at k
SkipSign(s, k) == IF k <= Len(s) /\ s[k] \in {"+", "-"} THEN k + 1 ELSE k

\* position after the run of digits that starts at k
RECURSIVE SkipDigits(_, _)
SkipDigits(s, k) == IF k <= Len(s) /\ IsDigit(s[k]) THEN SkipDigits(s, k + 1) ELSE k

\* value of the digits s[a..b-1]
RECURSIVE DigitsVal(_, _, _, _)
DigitsVal(s, a, b, acc) ==
    IF a >= b THEN acc ELSE DigitsVal(s, a + 1, b, 10 * acc + DigitVal(s[a]))

\* decimal digits of a natural number
RECURSIVE NatToString(_)
NatToString(n) ==
    IF n < 10 THEN <<DigitChar(n)>> ELSE NatToString(n \div 10) \o <<DigitChar(n % 10)>>

\* strtoll(string, &rest, 10): the value and the unparsed rest
strtoll(string) ==
    With(SkipSpace(string, 1), LAMBDA a :
    With(SkipSign(string, a), LAMBDA b :
    With(SkipDigits(string, b), LAMBDA e :
        IF e = b THEN [val |-> 0, rest |-> string]
        ELSE [val |-> (IF string[a] = "-" THEN -1 ELSE 1) * DigitsVal(string, b, e, 0),
              rest |-> Tail_from(string, e)])))

is_string_llint(string) ==
    IF string = NULL THEN FALSE ELSE strings_equal(strtoll(string).rest, EMPTY_CELL)

string_to_llint(string) ==
    IF string = NULL THEN [ret |-> FUNCTION_ARGUMENT_ERROR, val |-> 0]
    ELSE With(strtoll(string), LAMBDA c :
             [ret |-> IF strings_equal(c.rest, EMPTY_CELL)
                      THEN NO_ERROR ELSE NUM_CONVERSION_FAILED,
              val |-> c.val])

\* a long double: not-a-number, an infinity (den = 0, num = 1 or -1), or the
\* rational num/den (den > 0)
Num(n, d) == [nan |-> FALSE, neg |-> FALSE, num |-> n, den |-> d]
NaN(sign) == [nan |-> TRUE, neg |-> sign, num |-> 0, den |-> 1]
Inf(sign) == [nan |-> FALSE, neg |-> sign, num |-> IF sign THEN -1 ELSE 1, den |-> 0]
IsInf(x) == ~x.nan /\ x.den = 0

\* the rational n/d in lowest terms
Ratio(n, d) == With(Gcd(Abs(n), d), LAMBDA g : Num(n \div g, d \div g))

Lower(c) ==
    CASE c = "N" -> "n" [] c = "A" -> "a" [] c = "I" -> "i" [] c = "F" -> "f"
      [] c = "T" -> "t" [] c = "Y" -> "y" [] OTHER -> c

\* s[k..] starts with the letters w, in either case
StartsNoCase(s, k, w) ==
    /\ k + Len(w) - 1 <= Len(s)
    /\ \A j \in 1..Len(w) : Lower(s[k + j - 1]) = w[j]

\* the decimal number with integer digits s[b..i1-1], fraction digits
\* s[f0..f1-1] and exponent ex
Decimal(s, neg, b, i1, f0, f1, ex) ==
    With(DigitsVal(s, f0, f1, DigitsVal(s, b, i1, 0)), LAMBDA mant :
    With(ex - (f1 - f0), LAMBDA e :
        Ratio((IF neg THEN -1 ELSE 1) * (IF e >= 0 THEN mant * Pow10(e) ELSE mant),
              IF e >= 0 THEN 1 ELSE Pow10(-e))))

\* the exponent part of a decimal number at f1: [stop, ex]
Exponent(s, f1) ==
    IF f1 <= Len(s) /\ s[f1] \in {"e", "E"}
    THEN With(SkipSign(s, f1 + 1), LAMBDA x1 :
         With(SkipDigits(s, x1), LAMBDA x2 :
             IF x2 > x1
             THEN [stop |-> x2,
                   ex |-> (IF s[f1 + 1] = "-" THEN -1 ELSE 1) * DigitsVal(s, x1, x2, 0)]
             ELSE [stop |-> f1, ex |-> 0]))
    ELSE [stop |-> f1, ex |-> 0]

\* strtold(string, &rest): the value and the unparsed rest
strtold(string) ==
    With(SkipSpace(string, 1), LAMBDA a :
    With(SkipSign(string, a), LAMBDA b :
    With(b > a /\ string[a] = "-", LAMBDA neg :
        IF StartsNoCase(string, b, <<"n", "a", "n">>)
        THEN [val |-> NaN(neg), rest |-> Tail_from(string, b + 3)]
        ELSE IF StartsNoCase(string, b, <<"i", "n", "f", "i", "n", "i", "t", "y">>)
        THEN [val |-> Inf(neg), rest |-> Tail_from(string, b + 8)]
        ELSE IF StartsNoCase(string, b, <<"i", "n", "f">>)
        THEN [val |-> Inf(neg), rest |-> Tail_from(string, b + 3)]
        ELSE
        With(SkipDigits(string, b), LAMBDA i1 :
        With(IF i1 <= Len(string) /\ string[i1] = "." THEN i1 + 1 ELSE i1, LAMBDA f0 :
        With(IF f0 > i1 THEN SkipDigits(string, f0) ELSE i1, LAMBDA f1 :
            IF (i1 - b) + (f1 - f0) = 0 THEN [val |-> Num(0, 1), rest |-> string]
            ELSE With(Exponent(string, f1), LAMBDA x :
                     [val |-> Decimal(string, neg, b, i1, f0, f1, x.ex),
                      rest |-> Tail_from(string, x.stop)])))))))

is_string_ldouble(string) ==
    IF string = NULL THEN FALSE ELSE strings_equal(strtold(string).rest, EMPTY_CELL)

string_to_ldouble(string) ==
    IF string = NULL THEN [ret |-> FUNCTION_ARGUMENT_ERROR, val |-> Num(0, 1)]
    ELSE With(strtold(string), LAMBDA c :
             [ret |-> IF strings_equal(c.rest, EMPTY_CELL)
                      THEN NO_ERROR ELSE NUM_CONVERSION_FAILED,
              val |-> c.val])

\* long double arithmetic and comparison on the values of the model
\* an invalid operation (inf - inf, 0/0, inf/inf) gives the default NaN of the
\* x87 unit, whose sign bit is set
LdAdd(x, y) ==
    IF x.nan THEN x ELSE IF y.nan THEN y
    ELSE IF IsInf(x) THEN (IF IsInf(y) /\ y.num # x.num THEN NaN(TRUE) ELSE x)
    ELSE IF IsInf(y) THEN y
    ELSE Ratio(x.num * y.den + y.num * x.den, x.den * y.den)

LdDiv(x, y) ==
    IF x.nan THEN x ELSE IF y.nan THEN y
    ELSE IF IsInf(x) THEN (IF IsInf(y) THEN NaN(TRUE) ELSE Inf((x.num < 0) # (y.num < 0)))
    ELSE IF IsInf(y) THEN Num(0, 1)
    ELSE IF y.num = 0 THEN (IF x.num = 0 THEN NaN(TRUE) ELSE Inf(x.num < 0))
    ELSE Ratio(x.num * y.den * (IF y.num < 0 THEN -1 ELSE 1), x.den * Abs(y.num))

LdLess(x, y) ==
    /\ ~x.nan /\ ~y.nan
    /\ IF IsInf(x) /\ IsInf(y) THEN x.num < y.num ELSE x.num * y.den < y.num * x.den

\* the decimal exponent X of a positive rational: 10^X <= n/d < 10^(X+1)
RECURSIVE Exp10Up(_, _, _)
Exp10Up(n, d, x) == IF n >= 10 * d * Pow10(x) THEN Exp10Up(n, d, x + 1) ELSE x
RECURSIVE Exp10Down(_, _, _)
Exp10Down(n, d, x) == IF n * Pow10(x) < d THEN Exp10Down(n, d, x + 1) ELSE -x
Exp10(n, d) == IF n >= d THEN Exp10Up(n, d, 0) ELSE Exp10Down(n, d, 1)

\* n/d rounded to the nearest integer, ties to even
RoundDiv(n, d) ==
    With(n \div d, LAMBDA q :
    With(n % d, LAMBDA r :
        IF 2 * r > d \/ (2 * r = d /\ q % 2 = 1) THEN q + 1 ELSE q))

RECURSIVE StripZeros(_)
StripZeros(s) ==
    IF s # <<>> /\ s[Len(s)] = "0" THEN StripZeros(SubSeq(s, 1, Len(s) - 1)) ELSE s

\* s left-padded with zeros to n characters
RECURSIVE PadZeros(_, _)
PadZeros(s, n) == IF Len(s) >= n THEN s ELSE PadZeros(<<"0">> \o s, n)

\* "." and the digits frac without their trailing zeros, nothing if none is left
Fraction(frac) ==
    With(StripZeros(frac), LAMBDA f : IF f = <<>> THEN <<>> ELSE <<".">> \o f)

\* the six significant digits ds of a number with decimal exponent x, as
\* printf("%Lg") lays them out
LayoutLg(ds, x) ==
    IF x < -4 \/ x >= 6
    THEN <<ds[1]>> \o Fraction(SubSeq(ds, 2, 6))
         \o <<"e", IF x < 0 THEN "-" ELSE "+">> \o PadZeros(NatToString(Abs(x)), 2)
    ELSE IF x >= 0
    THEN SubSeq(ds, 1, x + 1) \o Fraction(SubSeq(ds, x + 2, 6))
    ELSE <<"0">> \o Fraction(PadZeros(ds, 5 - x))

\* printf("%Lg") of a positive rational n/d: six significant digits
FormatLgPos(n, d) ==
    With(Exp10(n, d), LAMBDA x0 :
    With(IF x0 <= 5 THEN RoundDiv(n * Pow10(5 - x0), d)
         ELSE RoundDiv(n, d * Pow10(x0 - 5)), LAMBDA m0 :
        IF m0 >= 1000000 THEN LayoutLg(NatToString(100000), x0 + 1)
        ELSE LayoutLg(NatToString(m0), x0)))

\* snprintf(..., "%Lg", value)
ldouble_to_string(value) ==
    IF value.nan THEN (IF value.neg THEN <<"-">> ELSE <<>>) \o <<"n", "a", "n">>
    ELSE IF IsInf(value) THEN (IF value.neg THEN <<"-">> ELSE <<>>) \o <<"i", "n", "f">>
    ELSE IF value.num = 0 THEN <<"0">>
    ELSE (IF value.num < 0 THEN <<"-">> ELSE <<>>) \o FormatLgPos(Abs(value.num), value.den)

\* snprintf(..., "%li", value)
lint_to_string(value) ==
    IF value < 0 THEN <<"-">> \o NatToString(-value) ELSE NatToString(value)

\* (long int)(val) == val: no long int equals a NaN or an infinity
is_ldouble_lint(val) == ~val.nan /\ val.den = 1

-----------------------------------------------------------------------------
(* Quoting-aware scanner *)

RECURSIVE count_char_from(_, _, _, _, _, _, _)
count_char_from(string, c, ignore_escapes, k, in_parentecies, in_double_parentecies, counter) ==
    IF k > Len(string) THEN counter
    ELSE LET cc == string[k]
             dp == IF ~in_parentecies /\ cc = "\"" THEN ~in_double_parentecies
                   ELSE in_double_parentecies
             sp == IF ~dp /\ cc = "'" THEN ~in_parentecies ELSE in_parentecies
             hit == cc = c /\ (ignore_escapes
                               \/ (~sp /\ ~dp /\ (k # 1 /\ string[k - 1] # "\\")))
         IN count_char_from(string, c, ignore_escapes, k + 1, sp, dp,
                            IF hit THEN counter + 1 ELSE counter)

count_char(string, c, ignore_escapes) ==
    IF string = NULL THEN 0
    ELSE count_char_from(string, c, ignore_escapes, 1, FALSE, FALSE, 0)

\* returns the 0-based offset of the index-th (0-based) occurrence, -1 if none
RECURSIVE get_position_from(_, _, _, _, _, _, _, _)
get_position_from(string, ch, index, ignore_escapes, k, in_parentecies, in_double_parentecies, counter) ==
    IF k > Len(string) THEN -1
    ELSE LET cc == string[k]
             dp == IF ~in_parentecies /\ cc = "\"" THEN ~in_double_parentecies
                   ELSE in_double_parentecies
             sp == IF ~dp /\ cc = "'" THEN ~in_parentecies ELSE in_parentecies
             hit == cc = ch /\ (ignore_escapes
                                \/ (~sp /\ ~dp /\ (k # 1 /\ string[k - 1] # "\\")))
         IN IF hit /\ counter = index THEN k - 1
            ELSE get_position_from(string, ch, index, ignore_escapes, k + 1, sp, dp,
                                   IF hit THEN counter + 1 ELSE counter)

\* a search that takes every occurrence for a match, whatever the mode
get_position_of_any(string, ch, index, ignore_escapes) ==
    get_position_from(string, ch, index, TRUE, 1, FALSE, FALSE, 0)

get_position_of_character(string, ch, index, ignore_escapes) ==
    get_position_from(string, ch, index, ignore_escapes, 1, FALSE, FALSE, 0)

\* rm_newline_chars: cut the string at the first \n or \r
rm_newline_chars(s) ==
    LET ps == {p \in 1..Len(s) : s[p] = "\n" \/ s[p] = "\r"}
    IN IF ps = {} THEN s
       ELSE SubSeq(s, 1, (CHOOSE p \in ps : \A q \in ps : p <= q) - 1)

\* get_substring: [ret, substring, rest].  "substring" is the caller's buffer
\* (NULL when the caller has none yet); "\0" as delimiter never occurs in a string.
get_substring(string, substring, delim, index, ignore_escapes, want_rest) ==
    IF string = NULL
    THEN [ret |-> FUNCTION_ERROR, substring |-> substring, rest |-> NULL]
    ELSE
    With(count_char(string, delim, ignore_escapes), LAMBDA number_of_delims :
    With(IF index = 0 THEN 0
         ELSE get_position_of_character(string, delim, index - 1, ignore_escapes) + 1,
         LAMBDA start_index :
    With(IF index >= number_of_delims THEN Len(string) - 1
         ELSE get_position_of_character(string, delim, index, ignore_escapes) - 1,
         LAMBDA end_index :
    With(Max(start_index, end_index + 1) + 1, LAMBDA j :
        IF substring = NULL /\ (end_index - start_index + 1) = 0
        THEN [ret |-> NO_ERROR, substring |-> NULL, rest |-> NULL]
        ELSE [ret |-> NO_ERROR,
              substring |-> IF end_index >= start_index
                            THEN SubSeq(string, start_index + 1, end_index + 1) ELSE <<>>,
              rest |-> IF want_rest /\ Len(string) - j + 1 # 0
                       THEN Tail_from(string, j + 1) ELSE NULL]))))

\* normalize_delims: one pass over the line for every alternate delimiter
RECURSIVE normalize_delim_from(_, _, _, _, _, _)
normalize_delim_from(line, d, d0, j, in_parentecies, in_double_parentecies) ==
    IF j > Len(line) THEN line
    ELSE LET cc == line[j]
             dp == IF ~in_parentecies /\ cc = "\"" THEN ~in_double_parentecies
                   ELSE in_double_parentecies
             sp == IF ~dp /\ cc = "'" THEN ~in_parentecies ELSE in_parentecies
             hit == cc = d /\ ~sp /\ ~dp /\ (j # 1 /\ line[j - 1] # "\\")
         IN normalize_delim_from(IF hit THEN [line EXCEPT ![j] = d0] ELSE line,
                                 d, d0, j + 1, sp, dp)

RECURSIVE normalize_delims_from(_, _, _)
normalize_delims_from(line, dl, k) ==
    IF k > Len(dl) THEN line
    ELSE normalize_delims_from(normalize_delim_from(line, dl[k], dl[1], 1, FALSE, FALSE),
                               dl, k + 1)

normalize_delims(line, dl) == normalize_delims_from(line, dl, 2)

check_sanity_of_delims(dl) ==
    \A a \in 1..Len(dl) : \A b \in 1..Len(BLACKLISTED_DELIMS) : dl[a] # BLACKLISTED_DELIMS[b]

-----------------------------------------------------------------------------
(* Cell / Row / Table store on the heap *)

\* a Row structure whose "cells" is the NULL pointer (pointer 0)
NullSlot == [cells |-> 0, num_of_cells |-> 0, allocated_cells |-> 0]

\* main's Table before load_table: rows = NULL; "heap" holds the blocks of
\* cells (a released block is the empty sequence) and "ub" records that the
\* run has left defined behaviour; "memory" is the number of requests that
\* malloc and realloc still grant (any number when it is negative) and
\* "refused" records that a request was refused
EmptyTable(dl) ==
    [delim |-> dl[1], num_of_rows |-> 0, allocated_rows |-> 0, rows |-> <<>>,
     heap |-> <<>>, ub |-> FALSE, memory |-> -1, refused |-> FALSE]

Live(t, p) == p \in 1..Len(t.heap) /\ t.heap[p] # <<>>
Referenced(t, p) == \E r \in 1..Len(t.rows) : t.rows[r].cells = p

\* malloc: the lowest address that is neither in use nor still pointed to
NewBlock(t) ==
    CHOOSE p \in 1..(Len(t.heap) + 1) :
        /\ ~Live(t, p) /\ ~Referenced(t, p)
        /\ \A q \in 1..(p - 1) : Live(t, q) \/ Referenced(t, q)

PutBlock(t, p, blk) ==
    [t EXCEPT !.heap = IF p > Len(t.heap) THEN Append(t.heap, blk)
                       ELSE [t.heap EXCEPT ![p] = blk]]

Ok(t) == [t |-> t, ret |-> NO_ERROR]
Err(t, code) == [t |-> t, ret |-> code]
\* undefined behaviour: the run continues nowhere that the model describes
Undefined(t) == [t |-> [t EXCEPT !.ub = TRUE], ret |-> FUNCTION_ERROR]

\* the rest of the function, next(t), if the call returned no error; else
\* the function returns code (with the table as the call left it)
Then(res, code, next(_)) == IF res.ret # NO_ERROR THEN Err(res.t, code) ELSE next(res.t)

\* the rest of the function if the call returned no error; else the function
\* returns the error code of the call
Try(res, next(_)) == IF res.ret # NO_ERROR THEN res ELSE next(res.t)

\* rows[r].cells[k] (r 1-based, k 0-based) can be dereferenced
CellValid(t, r, k) ==
    /\ r \in 1..Len(t.rows)
    /\ Live(t, t.rows[r].cells)
    /\ k >= 0 /\ k < Len(t.heap[t.rows[r].cells])

Content(t, r, k) == t.heap[t.rows[r].cells][k + 1]

\* number of columns as the code reads it: table->rows[0].num_of_cells
NumCols(t) == t.rows[1].num_of_cells

\* n requests to malloc or realloc in a row, the first refusal ending them
Request(t, n) ==
    IF t.memory < 0 THEN Ok(t)
    ELSE IF t.memory >= n THEN Ok([t EXCEPT !.memory = @ - n])
    ELSE Err([t EXCEPT !.memory = 0, !.refused = TRUE], ALLOCATION_FAILED)

allocate_rows(t0) ==
    Try(Request(t0, 1), LAMBDA t :
    IF t.rows = <<>>
    THEN Ok([t EXCEPT !.rows = [k \in 1..BASE_NUMBER_OF_ROWS |-> NullSlot],
                      !.num_of_rows = 0,
                      !.allocated_rows = BASE_NUMBER_OF_ROWS])
    ELSE Ok([t EXCEPT !.rows = [k \in 1..(t.allocated_rows + BASE_NUMBER_OF_ROWS) |->
                                   IF k <= t.num_of_rows THEN t.rows[k] ELSE NullSlot],
                      !.allocated_rows = t.allocated_rows + BASE_NUMBER_OF_ROWS]))

\* the block rows[r].cells cannot be read over its num_of_cells cells
RowDangling(t, r) ==
    ~Live(t, t.rows[r].cells) \/ t.rows[r].num_of_cells > Len(t.heap[t.rows[r].cells])

\* rows[r].cells is also held by another row slot
Shared(t, r) == \E r2 \in 1..Len(t.rows) : r2 # r /\ t.rows[r2].cells = t.rows[r].cells

\* the block of rows[r] after realloc to size cells: the first num_of_cells
\* cells are kept, the others get the default values
Grown(t, r, size) ==
    [k \in 1..size |-> IF k <= t.rows[r].num_of_cells THEN t.heap[t.rows[r].cells][k]
                       ELSE NULL]

\* allocate_cells on rows[r]; "moves" tells whether realloc returns a new
\* address when the block is also reachable through another row slot
allocate_cells(t0, r, moves) ==
    IF t0.rows[r].cells # 0 /\ RowDangling(t0, r) THEN Undefined(t0)
    ELSE
    Try(Request(t0, 1), LAMBDA t :
    IF t.rows[r].cells = 0
    THEN With(NewBlock(t), LAMBDA p :
             Ok([PutBlock(t, p, [k \in 1..BASE_NUMBER_OF_CELLS |-> NULL])
                     EXCEPT !.rows[r] = [cells |-> p, num_of_cells |-> 0,
                                         allocated_cells |-> BASE_NUMBER_OF_CELLS]]))
    ELSE With(t.rows[r].allocated_cells + BASE_NUMBER_OF_CELLS, LAMBDA size :
             IF Shared(t, r) /\ moves
             THEN With(NewBlock(t), LAMBDA p :
                      Ok([PutBlock(PutBlock(t, p, Grown(t, r, size)), t.rows[r].cells, <<>>)
                              EXCEPT !.rows[r].cells = p,
                                     !.rows[r].allocated_cells = size]))
             ELSE Ok([PutBlock(t, t.rows[r].cells, Grown(t, r, size))
                          EXCEPT !.rows[r].allocated_cells = size])))

\* the calls of allocate_content that bring a content buffer to the length
\* of string, BASE_CELL_LENGTH bytes a call
ContentBlocks(string) ==
    IF string = NULL THEN 0 ELSE (Len(string) + BASE_CELL_LENGTH) \div BASE_CELL_LENGTH

\* set_cell(string, &rows[r].cells[k]); the content buffer, taken to be as
\* long as the content it holds requires, grows as needed
set_cell(string, t, r, k) ==
    IF string = NULL THEN Err(t, FUNCTION_ARGUMENT_ERROR)
    ELSE IF ~CellValid(t, r, k) THEN Undefined(t)
    ELSE Try(Request(t, Max(0, ContentBlocks(string) - ContentBlocks(Content(t, r, k)))),
             LAMBDA t1 : Ok([t1 EXCEPT !.heap[t1.rows[r].cells][k + 1] = string]))

\* deallocate_cell(&rows[r].cells[k])
deallocate_cell(t, r, k) ==
    IF ~CellValid(t, r, k) THEN Undefined(t)
    ELSE Ok([t EXCEPT !.heap[t.rows[r].cells][k + 1] = NULL])

\* rows[r].num_of_cells++ as the last step of a call that returned res
CellAdded(res, r) ==
    IF res.ret # NO_ERROR THEN Err(res.t, ALLOCATION_FAILED)
    ELSE Ok([res.t EXCEPT !.rows[r].num_of_cells = @ + 1])

append_empty_cell(t, r, moves) ==
    Then(IF t.rows[r].cells = 0 \/ t.rows[r].num_of_cells = t.rows[r].allocated_cells
         THEN allocate_cells(t, r, moves) ELSE Ok(t),
         ALLOCATION_FAILED, LAMBDA t1 :
    CellAdded(set_cell(EMPTY_CELL, t1, r, t1.rows[r].num_of_cells), r))

\* n calls of append_empty_cell on rows[r], stopping at the first failure
RECURSIVE append_empty_cells(_, _, _, _)
append_empty_cells(t, r, n, moves) ==
    IF n <= 0 THEN Ok(t)
    ELSE Then(append_empty_cell(t, r, moves), ALLOCATION_FAILED, LAMBDA t1 :
              append_empty_cells(t1, r, n - 1, moves))

\* deallocate_row(&rows[r])
deallocate_row(t, r) ==
    IF t.rows[r].cells = 0 THEN Ok(t)
    ELSE IF RowDangling(t, r) THEN Undefined(t)
    ELSE Ok([PutBlock(t, t.rows[r].cells, <<>>) EXCEPT !.rows[r] = NullSlot])

RECURSIVE deallocate_rows_from(_, _)
deallocate_rows_from(t, r) ==
    IF r > t.num_of_rows THEN Ok(t)
    ELSE Try(deallocate_row(t, r), LAMBDA t1 : deallocate_rows_from(t1, r + 1))

deallocate_table(t) ==
    IF t.rows = <<>> THEN Ok(t)
    ELSE Try(deallocate_rows_from(t, 1), LAMBDA t1 :
             Ok([t1 EXCEPT !.rows = <<>>, !.num_of_rows = 0, !.allocated_rows = 0]))

-----------------------------------------------------------------------------
(* Line parser, load and save *)

\* 1-based position of the first "\n" at or after pos, Len(file) + 1 if none
RECURSIVE LineEnd(_, _)
LineEnd(file, pos) ==
    IF pos > Len(file) \/ file[pos] = "\n" THEN pos ELSE LineEnd(file, pos + 1)

\* get_line: reads from 1-based offset pos of the file up to "\n" or the end;
\* ret is -1 when nothing is left to read, else the size of the line buffer
get_line(file, pos) ==
    With(LineEnd(file, pos), LAMBDA stop :
        IF stop = pos /\ stop > Len(file)
        THEN [ret |-> -1, line |-> NULL, pos |-> stop]
        ELSE [ret |-> 16 * (((stop - pos) + 1) \div 16 + 1),
              line |-> SubSeq(file, pos, stop - 1),
              pos |-> IF stop > Len(file) THEN stop ELSE stop + 1])

\* loop of create_row_from_data over the cells of the line; "buffer" is
\* substring_buffer, k the 0-based cell index, r the row slot
RECURSIVE create_cells_from(_, _, _, _, _, _)
create_cells_from(line, t, r, k, number_of_cells, buffer) ==
    IF k >= number_of_cells THEN Ok(t)
    ELSE
    Then(IF k >= t.rows[r].allocated_cells THEN allocate_cells(t, r, FALSE) ELSE Ok(t),
         ALLOCATION_FAILED, LAMBDA t1 :
    With(get_substring(line, buffer, t1.delim, k, FALSE, FALSE), LAMBDA g :
        IF g.ret # NO_ERROR THEN Err(t1, g.ret)
        ELSE
        \* get_substring allocates the buffer when the caller has none
        Try(Request(t1, IF buffer = NULL /\ g.substring # NULL THEN 1 ELSE 0), LAMBDA t2 :
        Then(set_cell(g.substring, t2, r, k), ALLOCATION_FAILED, LAMBDA t3 :
             create_cells_from(line, [t3 EXCEPT !.rows[r].num_of_cells = @ + 1],
                               r, k + 1, number_of_cells, g.substring)))))

create_row_from_data(line, t) ==
    IF line = NULL THEN Err(t, FUNCTION_ERROR)
    ELSE
    Then(allocate_cells(t, t.num_of_rows + 1, FALSE), ALLOCATION_FAILED, LAMBDA t1 :
    Try(create_cells_from(line, t1, t1.num_of_rows + 1, 0,
                          count_char(line, t1.delim, FALSE) + 1, NULL), LAMBDA t2 :
        Ok([t2 EXCEPT !.num_of_rows = @ + 1])))

\* the while loop of load_table, pos being the read offset in the file
RECURSIVE load_lines_from(_, _, _, _, _)
load_lines_from(dl, file, pos, line_index, t) ==
    With(get_line(file, pos), LAMBDA l :
        \* get_line allocates its buffer before it reads, 16 bytes a request,
        \* and returns no line when a request is refused
        Try(Request(t, IF l.ret = -1 THEN 1 ELSE l.ret \div 16), LAMBDA t0 :
        IF l.ret = -1 THEN Ok(t0)
        ELSE
        Then(IF line_index >= t0.allocated_rows THEN allocate_rows(t0) ELSE Ok(t0),
             ALLOCATION_FAILED, LAMBDA t1 :
        Try(create_row_from_data(normalize_delims(rm_newline_chars(l.line), dl), t1),
            LAMBDA t2 : load_lines_from(dl, file, l.pos, line_index + 1, t2)))))

load_table(dl, file, t) ==
    Then(allocate_rows(t), ALLOCATION_FAILED, LAMBDA t1 :
         load_lines_from(dl, file, 1, 0, t1))

\* second loop of normalize_row_lengths
RECURSIVE normalize_rows_from(_, _, _)
normalize_rows_from(t, r, max_number_of_cols) ==
    IF r > t.num_of_rows THEN Ok(t)
    ELSE Then(append_empty_cells(t, r, max_number_of_cols - t.rows[r].num_of_cells, FALSE),
              ALLOCATION_FAILED, LAMBDA t1 :
              normalize_rows_from(t1, r + 1, max_number_of_cols))

\* the first loop of normalize_row_lengths without its comparison: the width
\* becomes that of the last row
RECURSIVE max_cols_last(_, _, _)
max_cols_last(t, r, max_number_of_cols) ==
    IF r > t.num_of_rows THEN max_number_of_cols
    ELSE max_cols_last(t, r + 1, t.rows[r].num_of_cells)

\* first loop of normalize_row_lengths
RECURSIVE max_cols_from(_, _, _)
max_cols_from(t, r, max_number_of_cols) ==
    IF r > t.num_of_rows THEN max_number_of_cols
    ELSE max_cols_from(t, r + 1, IF t.rows[r].num_of_cells > max_number_of_cols
                                 THEN t.rows[r].num_of_cells ELSE max_number_of_cols)

normalize_row_lengths(t) == normalize_rows_from(t, 1, max_cols_from(t, 1, 0))

\* inner loop of normalize_empty_cols destroying column k (0-based) in rows r..
RECURSIVE destroy_col_from(_, _, _)
destroy_col_from(t, r, k) ==
    IF r > t.num_of_rows THEN Ok(t)
    ELSE Try(deallocate_cell(t, r, k), LAMBDA t1 :
             destroy_col_from([t1 EXCEPT !.rows[r].num_of_cells = @ - 1], r + 1, k))

\* outer loop of normalize_empty_cols, k running from the last column down to 1
RECURSIVE normalize_empty_cols_from(_, _)
normalize_empty_cols_from(t, k) ==
    IF k <= 0 THEN Ok(t)
    ELSE IF \E r \in 1..t.num_of_rows : ~CellValid(t, r, k) THEN Undefined(t)
    ELSE IF \E r \in 1..t.num_of_rows : ~strings_equal(Content(t, r, k), EMPTY_CELL)
    THEN Ok(t)
    ELSE Try(destroy_col_from(t, 1, k), LAMBDA t1 : normalize_empty_cols_from(t1, k - 1))

\* a trimming that destroys the last column whatever it holds
normalize_last_col(t) ==
    IF t.num_of_rows > 0 /\ NumCols(t) > 1 THEN destroy_col_from(t, 1, NumCols(t) - 1)
    ELSE Ok(t)

normalize_empty_cols(t) ==
    IF t.num_of_rows > 0 THEN normalize_empty_cols_from(t, NumCols(t) - 1) ELSE Ok(t)

\* ret_code = normalize_row_lengths(table) != NO_ERROR, a truth value
normalize_number_of_cols(t) ==
    With(normalize_row_lengths(t), LAMBDA n :
        IF n.ret # NO_ERROR THEN Err(n.t, 1)
        ELSE [t |-> normalize_empty_cols(n.t).t, ret |-> 0])

\* the bytes save_table writes for row r from cell k on (0-based)
RECURSIVE save_cells_from(_, _, _)
save_cells_from(t, r, k) ==
    IF k >= t.rows[r].num_of_cells THEN <<>>
    ELSE (IF Content(t, r, k) # NULL
          THEN Content(t, r, k) \o (IF k < t.rows[r].num_of_cells - 1 THEN <<t.delim>> ELSE <<>>)
          ELSE <<>>)
         \o save_cells_from(t, r, k + 1)

RECURSIVE save_rows_from(_, _)
save_rows_from(t, r) ==
    IF r > t.num_of_rows THEN <<>>
    ELSE IF t.rows[r].cells = 0 THEN <<>>
    ELSE save_cells_from(t, r, 0) \o <<"\n">> \o save_rows_from(t, r + 1)

\* save_table: the content of the output file
save_table(t) == save_rows_from(t, 1)

\* save_table and print_table dereference every row up to the first one
\* without cells; TRUE when all of that storage is live
RECURSIVE PrintDefinedFrom(_, _)
PrintDefinedFrom(t, r) ==
    IF r > t.num_of_rows \/ t.rows[r].cells = 0 THEN TRUE
    ELSE /\ \A k \in 0..(t.rows[r].num_of_cells - 1) : CellValid(t, r, k)
         /\ PrintDefinedFrom(t, r + 1)

PrintDefined(t) == PrintDefinedFrom(t, 1)

-----------------------------------------------------------------------------
(* Selection and temporary variables *)

UninitSelector ==
    [lld_ir1 |-> 0, lld_ic1 |-> 0, lld_ir2 |-> 0, lld_ic2 |-> 0, initialized |-> FALSE]

init_selector(sel) ==
    [sel EXCEPT !.lld_ic1 = 0, !.lld_ic2 = 0, !.lld_ir1 = 0, !.lld_ir2 = 0,
                !.initialized = TRUE]

NoTempVars == <<>>       \* temp_var_store.variables = NULL
init_temp_var_store == [k \in 1..NUMBER_OF_TEMPORARY_VARIABLES |-> NULL]

\* copy_selector without its two column assignments
copy_selector_rows(source, dest) ==
    [dest EXCEPT !.lld_ir1 = source.lld_ir1, !.lld_ir2 = source.lld_ir2]

copy_selector(source, dest) ==
    [dest EXCEPT !.lld_ir1 = source.lld_ir1, !.lld_ir2 = source.lld_ir2,
                 !.lld_ic1 = source.lld_ic1, !.lld_ic2 = source.lld_ic2]

Single(sel, r, c) ==
    [sel EXCEPT !.lld_ir1 = r, !.lld_ir2 = r, !.lld_ic1 = c, !.lld_ic2 = c]

\* The rows and cells visited by
\*   for (i = ir1; i <= ir2 && i < num_of_rows; i++)
\*     for (j = ic1; j <= ic2 && j < rows[i].num_of_cells; j++)
\* as 0-based indices; the loops themselves read rows[i].num_of_cells
AreaRows(t, sel) == {r \in sel.lld_ir1..Min(sel.lld_ir2, t.num_of_rows - 1) : TRUE}
AreaCols(t, sel, r) ==
    {c \in sel.lld_ic1..Min(sel.lld_ic2, t.rows[r + 1].num_of_cells - 1) : TRUE}

\* the outer loop indexes the row array below its start
RowsUndefined(t, sel) == \E r \in AreaRows(t, sel) : r < 0

RECURSIVE SetToSeq(_)
SetToSeq(S) ==
    IF S = {} THEN <<>>
    ELSE LET m == CHOOSE x \in S : \A y \in S : x <= y
         IN <<m>> \o SetToSeq(S \ {m})

RECURSIVE AreaFrom(_, _, _)
AreaFrom(t, sel, rs) ==
    IF rs = <<>> THEN <<>>
    ELSE With(SetToSeq(AreaCols(t, sel, Head(rs))), LAMBDA cs :
             [k \in 1..Len(cs) |-> <<Head(rs), cs[k]>>] \o AreaFrom(t, sel, Tail(rs)))

\* the visited cells <<i, j>> in the order of the loops (row-major)
Area(t, sel) == AreaFrom(t, sel, SetToSeq(AreaRows(t, sel)))

\* a selector result: the selection, the return value, and whether the call
\* left defined behaviour
SelRes(sel, ret) == [sel |-> sel, ret |-> ret, ub |-> FALSE]
SelUndefined(sel) == [sel |-> sel, ret |-> FUNCTION_ERROR, ub |-> TRUE]

\* the cell a = <<i, j>> can be dereferenced, and its content
Valid(t, a) == CellValid(t, a[1] + 1, a[2])
ContentAt(t, a) == Content(t, a[1] + 1, a[2])

\* a visited cell cannot be dereferenced
AreaUndefined(t, sel) ==
    \/ RowsUndefined(t, sel)
    \/ With(Area(t, sel), LAMBDA a : \E k \in 1..Len(a) : ~Valid(t, a[k]))

\* the loops of selector_find without their breaks: the scan goes on after a
\* match
RECURSIVE find_from_on(_, _, _, _, _)
find_from_on(sel, t, string, a, k) ==
    IF k > Len(a) THEN SelRes(sel, NO_ERROR)
    ELSE IF ~Valid(t, a[k]) \/ string = NULL \/ ContentAt(t, a[k]) = NULL
    THEN SelUndefined(sel)
    ELSE IF string_start_with(ContentAt(t, a[k]), string)
    THEN find_from_on(Single(sel, a[k][1], a[k][2]), t, string, a, k + 1)
    ELSE find_from_on(sel, t, string, a, k + 1)

\* the loops of selector_find over the cells a[k..]
RECURSIVE find_from(_, _, _, _, _)
find_from(sel, t, string, a, k) ==
    IF k > Len(a) THEN SelRes(sel, NO_ERROR)
    ELSE IF ~Valid(t, a[k]) \/ string = NULL \/ ContentAt(t, a[k]) = NULL
    THEN SelUndefined(sel)
    ELSE IF string_start_with(ContentAt(t, a[k]), string)
    THEN SelRes(Single(sel, a[k][1], a[k][2]), NO_ERROR)
    ELSE find_from(sel, t, string, a, k + 1)

selector_find(sel, t, string) ==
    IF RowsUndefined(t, sel) THEN SelUndefined(sel)
    ELSE find_from(sel, t, string, Area(t, sel), 1)

\* selector_select_all with the row count and the column count exchanged
selector_select_all_transposed(sel, t) ==
    [sel EXCEPT !.lld_ir1 = 0, !.lld_ir2 = NumCols(t) - 1,
                !.lld_ic1 = 0, !.lld_ic2 = t.num_of_rows - 1]

selector_select_all(sel, t) ==
    [sel EXCEPT !.lld_ir1 = 0, !.lld_ir2 = t.num_of_rows - 1,
                !.lld_ic1 = 0, !.lld_ic2 = NumCols(t) - 1]

\* selector_select_last without the step from counts to 0-based indices
selector_select_past_last(sel, t) ==
    [sel EXCEPT !.lld_ir1 = t.num_of_rows, !.lld_ir2 = t.num_of_rows,
                !.lld_ic1 = NumCols(t), !.lld_ic2 = NumCols(t)]

selector_select_last(sel, t) ==
    [sel EXCEPT !.lld_ir1 = t.num_of_rows - 1, !.lld_ir2 = t.num_of_rows - 1,
                !.lld_ic1 = NumCols(t) - 1, !.lld_ic2 = NumCols(t) - 1]

selector_select_last_colm(sel, t) ==
    [sel EXCEPT !.lld_ir1 = 0, !.lld_ir2 = t.num_of_rows - 1,
                !.lld_ic1 = NumCols(t) - 1, !.lld_ic2 = NumCols(t) - 1]

selector_select_last_row(sel, t) ==
    [sel EXCEPT !.lld_ir1 = t.num_of_rows - 1, !.lld_ir2 = t.num_of_rows - 1,
                !.lld_ic1 = 0, !.lld_ic2 = NumCols(t) - 1]

\* the assignments that end selector_select_4p_area
select_4p_corners(sel, t, part_is_llint, parts_llint) ==
    SelRes([sel EXCEPT
              !.lld_ir1 = IF part_is_llint[1] THEN parts_llint[1] - 1 ELSE t.num_of_rows - 1,
              !.lld_ic1 = IF part_is_llint[2] THEN parts_llint[2] - 1 ELSE NumCols(t) - 1,
              !.lld_ir2 = IF part_is_llint[3] THEN parts_llint[3] - 1 ELSE t.num_of_rows - 1,
              !.lld_ic2 = IF part_is_llint[4] THEN parts_llint[4] - 1 ELSE NumCols(t) - 1],
           NO_ERROR)

\* a part that is neither a number nor "-" is among parts[a], parts[b]
not_dash(parts, part_is_llint, a, b) ==
    \/ (~part_is_llint[a] /\ ~strings_equal(parts[a], <<"-">>))
    \/ (~part_is_llint[b] /\ ~strings_equal(parts[b], <<"-">>))

\* the range tests of selector_select_4p_area on the numeric parts
out_of_range(t, part_is_llint, parts_llint) ==
    \/ (part_is_llint[1] /\ (parts_llint[1] > t.num_of_rows \/ parts_llint[1] < 1))
    \/ (part_is_llint[3] /\ (parts_llint[3] > t.num_of_rows \/ parts_llint[3] < 1))
    \/ (part_is_llint[2] /\ (parts_llint[2] > NumCols(t) \/ parts_llint[2] < 1))
    \/ (part_is_llint[4] /\ (parts_llint[4] > NumCols(t) \/ parts_llint[4] < 1))

\* selector_select_4p_area without its test of the places of "-"
selector_select_4p_any_dash(sel, t, parts, part_is_llint, parts_llint) ==
    IF not_dash(parts, part_is_llint, 3, 4) \/ not_dash(parts, part_is_llint, 1, 2)
    THEN SelRes(sel, SELECTOR_ERROR)
    ELSE IF \/ (part_is_llint[1] /\ part_is_llint[3] /\ parts_llint[1] > parts_llint[3])
            \/ (part_is_llint[2] /\ part_is_llint[4] /\ parts_llint[2] > parts_llint[4])
            \/ out_of_range(t, part_is_llint, parts_llint)
    THEN SelRes(sel, SELECTOR_ERROR)
    ELSE select_4p_corners(sel, t, part_is_llint, parts_llint)

\* selector_select_4p_area without its tests of R1 <= R2 and C1 <= C2
selector_select_4p_unordered(sel, t, parts, part_is_llint, parts_llint) ==
    IF not_dash(parts, part_is_llint, 3, 4) \/ not_dash(parts, part_is_llint, 1, 2)
    THEN SelRes(sel, SELECTOR_ERROR)
    ELSE IF \/ (~part_is_llint[1] /\ part_is_llint[3])
            \/ (~part_is_llint[2] /\ part_is_llint[4])
            \/ out_of_range(t, part_is_llint, parts_llint)
    THEN SelRes(sel, SELECTOR_ERROR)
    ELSE select_4p_corners(sel, t, part_is_llint, parts_llint)

\* parts, part_is_llint, parts_llint are the three four-entry arrays, 1-based here
selector_select_4p_area(sel, t, parts, part_is_llint, parts_llint) ==
    IF ~not_dash(parts, part_is_llint, 3, 4) /\ ~not_dash(parts, part_is_llint, 1, 2)
    THEN IF \/ (~part_is_llint[1] /\ part_is_llint[3])
            \/ (~part_is_llint[2] /\ part_is_llint[4])
            \/ (part_is_llint[1] /\ part_is_llint[3] /\ parts_llint[1] > parts_llint[3])
            \/ (part_is_llint[2] /\ part_is_llint[4] /\ parts_llint[2] > parts_llint[4])
            \/ out_of_range(t, part_is_llint, parts_llint)
         THEN SelRes(sel, SELECTOR_ERROR)
         ELSE select_4p_corners(sel, t, part_is_llint, parts_llint)
    ELSE SelRes(sel, SELECTOR_ERROR)

selector_select_2p_area(sel, t, parts, part_is_llint, parts_llint) ==
    IF part_is_llint[1] /\ part_is_llint[2]
    THEN IF /\ parts_llint[1] > 0 /\ parts_llint[1] <= t.num_of_rows
            /\ parts_llint[2] > 0 /\ parts_llint[2] <= NumCols(t)
         THEN SelRes(Single(sel, parts_llint[1] - 1, parts_llint[2] - 1), NO_ERROR)
         ELSE SelRes(sel, SELECTOR_ERROR)
    ELSE IF part_is_llint[1] /\ ~part_is_llint[2]
    THEN IF parts_llint[1] > 0 /\ parts_llint[1] <= t.num_of_rows /\ strings_equal(parts[2], <<"_">>)
         THEN SelRes([sel EXCEPT !.lld_ir1 = parts_llint[1] - 1, !.lld_ir2 = parts_llint[1] - 1,
                                 !.lld_ic1 = 0, !.lld_ic2 = NumCols(t) - 1], NO_ERROR)
         ELSE IF parts_llint[1] > 0 /\ parts_llint[1] <= t.num_of_rows /\ strings_equal(parts[2], <<"-">>)
         THEN SelRes(Single(sel, parts_llint[1] - 1, NumCols(t) - 1), NO_ERROR)
         ELSE SelRes(sel, SELECTOR_ERROR)
    ELSE IF ~part_is_llint[1] /\ part_is_llint[2]
    THEN IF strings_equal(parts[1], <<"_">>) /\ parts_llint[2] > 0 /\ parts_llint[2] <= NumCols(t)
         THEN SelRes([sel EXCEPT !.lld_ir1 = 0, !.lld_ir2 = t.num_of_rows - 1,
                                 !.lld_ic1 = parts_llint[2] - 1, !.lld_ic2 = parts_llint[2] - 1],
                     NO_ERROR)
         ELSE IF strings_equal(parts[1], <<"-">>) /\ parts_llint[2] > 0 /\ parts_llint[2] <= NumCols(t)
         THEN SelRes(Single(sel, t.num_of_rows - 1, parts_llint[2] - 1), NO_ERROR)
         ELSE SelRes(sel, SELECTOR_ERROR)
    ELSE SelRes(sel, SELECTOR_ERROR)

\* the string selector_max and selector_min test: the cell content, less one
\* pair of enclosing quotes
testing_string(content) ==
    IF \/ (string_start_with(content, <<"\"">>) /\ string_end_with(content, <<"\"">>))
       \/ (string_start_with(content, <<"'">>) /\ string_end_with(content, <<"'">>))
    THEN trim_se(content) ELSE content

\* the test of selector_max (want_max: ret > max) and selector_min (ret < min)
\* on a cell holding the number v; "best" is max or min, which starts at
\* -LDBL_MAX or LDBL_MAX: every number beats the start value but the infinity
\* beyond it
Better(want_max, found, best, v) ==
    IF found THEN (IF want_max THEN LdLess(best, v) ELSE LdLess(v, best))
    ELSE ~v.nan /\ ~(IsInf(v) /\ v.neg = want_max)

\* the loops of selector_max and selector_min over the cells a[k..]
RECURSIVE extreme_from(_, _, _, _, _, _, _, _)
extreme_from(sel, t, want_max, a, k, found, best, at) ==
    IF k > Len(a)
    THEN SelRes(IF found THEN Single(sel, at[1], at[2]) ELSE sel, NO_ERROR)
    ELSE IF ~Valid(t, a[k]) \/ ContentAt(t, a[k]) = NULL THEN SelUndefined(sel)
    ELSE With(testing_string(ContentAt(t, a[k])), LAMBDA s :
         With(string_to_ldouble(s), LAMBDA c :
             IF is_string_ldouble(s) /\ Better(want_max, found, best, c.val)
             THEN extreme_from(sel, t, want_max, a, k + 1, TRUE, c.val, a[k])
             ELSE extreme_from(sel, t, want_max, a, k + 1, found, best, at)))

selector_max(sel, t) ==
    IF RowsUndefined(t, sel) THEN SelUndefined(sel)
    ELSE extreme_from(sel, t, TRUE, Area(t, sel), 1, FALSE, Num(0, 1), <<0, 0>>)

selector_min(sel, t) ==
    IF RowsUndefined(t, sel) THEN SelUndefined(sel)
    ELSE extreme_from(sel, t, FALSE, Area(t, sel), 1, FALSE, Num(0, 1), <<0, 0>>)

\* the result of set_selector: both selections, the return value, and whether
\* the call left defined behaviour
SetRes(sel, temp, ret) == [sel |-> sel, temp |-> temp, ret |-> ret, ub |-> FALSE]
SetFrom(res, temp) == [sel |-> res.sel, temp |-> temp, ret |-> res.ret, ub |-> res.ub]

\* the three arrays of set_selector, 1-based here
Parts(ret, ub, parts, part_is_llint, parts_llint) ==
    [ret |-> ret, ub |-> ub, parts |-> parts, part_is_llint |-> part_is_llint,
     parts_llint |-> parts_llint]

\* the for loop of set_selector over the parts k.. (0-based) of buffer, p
\* holding the arrays; they have four entries, a fifth part is written past
\* their end
RECURSIVE parse_parts_from(_, _, _, _)
parse_parts_from(buffer, num_of_parts, k, p) ==
    IF k >= num_of_parts THEN p
    ELSE IF k >= 4 THEN [p EXCEPT !.ub = TRUE, !.ret = FUNCTION_ERROR]
    ELSE With(get_substring(buffer, p.parts[k + 1], ",", k, TRUE, FALSE), LAMBDA g :
             IF g.ret # NO_ERROR THEN [p EXCEPT !.ret = g.ret]
             ELSE IF is_string_llint(g.substring)
             THEN parse_parts_from(buffer, num_of_parts, k + 1,
                      [p EXCEPT !.parts[k + 1] = g.substring,
                                !.part_is_llint[k + 1] = TRUE,
                                !.parts_llint[k + 1] = string_to_llint(g.substring).val])
             ELSE IF ~strings_equal(g.substring, <<"-">>) /\ ~strings_equal(g.substring, <<"_">>)
             THEN [p EXCEPT !.parts[k + 1] = g.substring, !.ret = SELECTOR_ERROR]
             ELSE parse_parts_from(buffer, num_of_parts, k + 1,
                      [p EXCEPT !.parts[k + 1] = g.substring]))

\* the last branch of set_selector: a selector given by its parts
select_parts(sel, temp, t, buffer) ==
    With(count_char(buffer, ",", TRUE) + 1, LAMBDA num_of_parts :
    With(parse_parts_from(buffer, num_of_parts, 0,
                          Parts(NO_ERROR, FALSE, <<NULL, NULL, NULL, NULL>>,
                                <<FALSE, FALSE, FALSE, FALSE>>, <<0, 0, 0, 0>>)), LAMBDA p :
        IF p.ub THEN [sel |-> sel, temp |-> temp, ret |-> p.ret, ub |-> TRUE]
        ELSE IF p.ret # NO_ERROR THEN SetRes(sel, temp, p.ret)
        ELSE IF num_of_parts = 2
        THEN SetFrom(selector_select_2p_area(sel, t, p.parts, p.part_is_llint, p.parts_llint),
                     temp)
        ELSE IF num_of_parts = 4
        THEN SetFrom(selector_select_4p_area(sel, t, p.parts, p.part_is_llint, p.parts_llint),
                     temp)
        ELSE SetRes(sel, temp, SELECTOR_ERROR)))

\* set_selector after the split of the function at its first space
select_buffer(sel, temp, t, buffer, rest_buf) ==
    IF strings_equal(buffer, <<"f", "i", "n", "d">>)
    THEN With(selector_find(sel, t, rest_buf), LAMBDA f :
             [sel |-> f.sel, temp |-> temp, ret |-> NO_ERROR, ub |-> f.ub])
    ELSE IF strings_equal(buffer, <<"m", "a", "x">>)
    THEN SetFrom(selector_max(sel, t), temp)
    ELSE IF strings_equal(buffer, <<"m", "i", "n">>)
    THEN SetFrom(selector_min(sel, t), temp)
    ELSE IF strings_equal(buffer, <<"_", ",", "_">>)
    THEN SetRes(selector_select_all(sel, t), temp, NO_ERROR)
    ELSE IF \/ strings_equal(buffer, <<"-", ",", "-">>)
            \/ strings_equal(buffer, <<"-", ",", "-", ",", "-", ",", "-">>)
    THEN SetRes(selector_select_last(sel, t), temp, NO_ERROR)
    ELSE IF strings_equal(buffer, <<"_", ",", "-">>)
    THEN SetRes(selector_select_last_colm(sel, t), temp, NO_ERROR)
    ELSE IF strings_equal(buffer, <<"-", ",", "_">>)
    THEN SetRes(selector_select_last_row(sel, t), temp, NO_ERROR)
    ELSE IF strings_equal(buffer, <<"_">>)
    THEN SetRes(copy_selector(temp, sel), temp, NO_ERROR)
    ELSE IF strings_equal(buffer, <<"s", "e", "t">>)
    THEN SetRes(sel, copy_selector(sel, temp), NO_ERROR)
    ELSE select_parts(sel, temp, t, buffer)

\* set_selector(selector, temp_selector, command, table); "function" is
\* command->function
set_selector(sel, temp, function, t) ==
    IF ~sel.initialized \/ ~temp.initialized THEN SetRes(sel, temp, FUNCTION_ERROR)
    ELSE IF function = NULL THEN SetRes(sel, temp, FUNCTION_ERROR)
    ELSE With(get_substring(trim_se(function), NULL, " ", 0, TRUE, TRUE), LAMBDA g :
             IF g.ret # NO_ERROR THEN SetRes(sel, temp, g.ret)
             ELSE select_buffer(sel, temp, t, g.substring, g.rest))

-----------------------------------------------------------------------------
(* Table editing: rows and columns *)

\* inner loop of delete_col on rows[r]: cells j.. move one place to the left
RECURSIVE delete_col_shift(_, _, _)
delete_col_shift(t, r, j) ==
    IF j >= t.rows[r].num_of_cells THEN Ok(t)
    ELSE IF ~CellValid(t, r, j) THEN Undefined(t)
    ELSE IF Content(t, r, j) = NULL THEN Err(t, FUNCTION_ERROR)
    ELSE Then(set_cell(Content(t, r, j), t, r, j - 1), ALLOCATION_FAILED, LAMBDA t1 :
              delete_col_shift(t1, r, j + 1))

\* outer loop of delete_col over the rows r..
RECURSIVE delete_col_from(_, _, _)
delete_col_from(t, index, r) ==
    IF r > t.num_of_rows THEN Ok(t)
    ELSE IF t.rows[r].num_of_cells <= index \/ index < 0 THEN Err(t, FUNCTION_ARGUMENT_ERROR)
    ELSE Try(IF (t.rows[r].num_of_cells - 1) > index
             THEN delete_col_shift(t, r, index + 1) ELSE Ok(t), LAMBDA t1 :
         Try(deallocate_cell(t1, r, t1.rows[r].num_of_cells - 1), LAMBDA t2 :
             delete_col_from([t2 EXCEPT !.rows[r].num_of_cells = @ - 1], index, r + 1)))

delete_col(t, index) ==
    IF t.rows = <<>> \/ t.num_of_rows = 0 THEN Err(t, VALUE_ERROR)
    ELSE delete_col_from(t, index, 1)

\* loop of delete_cols, i running from end_index down to start_index
RECURSIVE delete_cols_from(_, _, _)
delete_cols_from(t, start_index, k) ==
    IF k < start_index THEN Ok(t)
    ELSE Try(delete_col(t, k), LAMBDA t1 : delete_cols_from(t1, start_index, k - 1))

delete_cols(t, start_index, end_index) ==
    delete_cols_from(t, start_index,
                     IF end_index >= NumCols(t) THEN NumCols(t) - 1 ELSE end_index)

RECURSIVE append_col_from(_, _, _)
append_col_from(t, r, moves) ==
    IF r > t.num_of_rows THEN Ok(t)
    ELSE Try(append_empty_cell(t, r, moves), LAMBDA t1 : append_col_from(t1, r + 1, moves))

append_col(t, moves) ==
    IF t.rows = <<>> \/ t.num_of_rows = 0 THEN Err(t, VALUE_ERROR)
    ELSE append_col_from(t, 1, moves)

\* inner loop of insert_col on rows[r]: cells j-1 down to index move one place
\* to the right
RECURSIVE insert_col_shift(_, _, _, _)
insert_col_shift(t, r, index, j) ==
    IF j <= index THEN Ok(t)
    ELSE IF ~CellValid(t, r, j - 1) THEN Undefined(t)
    ELSE IF Content(t, r, j - 1) = NULL THEN Err(t, FUNCTION_ERROR)
    ELSE Then(set_cell(Content(t, r, j - 1), t, r, j), ALLOCATION_FAILED, LAMBDA t1 :
              insert_col_shift(t1, r, index, j - 1))

RECURSIVE insert_col_from(_, _, _, _)
insert_col_from(t, index, r, moves) ==
    IF r > t.num_of_rows THEN Ok(t)
    ELSE IF t.rows[r].num_of_cells <= index \/ index < 0 THEN Err(t, FUNCTION_ARGUMENT_ERROR)
    ELSE IF t.rows[r].cells = 0 THEN Err(t, FUNCTION_ERROR)
    ELSE Then(IF t.rows[r].num_of_cells = t.rows[r].allocated_cells
              THEN allocate_cells(t, r, moves) ELSE Ok(t), ALLOCATION_FAILED, LAMBDA t1 :
         Try(insert_col_shift(t1, r, index, t1.rows[r].num_of_cells), LAMBDA t2 :
         Then(set_cell(EMPTY_CELL, t2, r, index), ALLOCATION_FAILED, LAMBDA t3 :
              insert_col_from([t3 EXCEPT !.rows[r].num_of_cells = @ + 1],
                              index, r + 1, moves))))

insert_col(t, index, moves) ==
    IF t.rows = <<>> \/ t.num_of_rows = 0 THEN Err(t, VALUE_ERROR)
    ELSE insert_col_from(t, index, 1, moves)

\* a row was added: table->num_of_rows++
RowAdded(t) == Ok([t EXCEPT !.num_of_rows = @ + 1])

\* append_row fills the slot rows[num_of_rows] as it finds it
append_row(t, moves) ==
    With(IF t.num_of_rows > 0 THEN NumCols(t) ELSE 1, LAMBDA number_of_cells :
    Then(IF t.num_of_rows = t.allocated_rows THEN allocate_rows(t) ELSE Ok(t),
         ALLOCATION_FAILED, LAMBDA t1 :
    Then(append_empty_cells(t1, t1.num_of_rows + 1, number_of_cells, moves),
         ALLOCATION_FAILED, RowAdded)))

\* loop of insert_row moving the slots k-1 -> k (1-based) for k down to index + 2
RECURSIVE insert_row_shift(_, _, _)
insert_row_shift(t, index, k) ==
    IF k <= index + 1 THEN Ok(t)
    ELSE IF t.rows[k - 1].cells = 0 THEN Err(t, FUNCTION_ERROR)
    ELSE insert_row_shift([t EXCEPT !.rows[k] = t.rows[k - 1]], index, k - 1)

insert_row(t, index, moves) ==
    IF t.rows = <<>> \/ t.num_of_rows = 0 THEN Err(t, VALUE_ERROR)
    ELSE IF t.num_of_rows <= index \/ index < 0 THEN Err(t, FUNCTION_ARGUMENT_ERROR)
    ELSE
    With(IF t.num_of_rows > 0 THEN NumCols(t) ELSE 1, LAMBDA number_of_cells :
    Then(IF t.num_of_rows = t.allocated_rows THEN allocate_rows(t) ELSE Ok(t),
         ALLOCATION_FAILED, LAMBDA t1 :
    Try(insert_row_shift(t1, index, t1.num_of_rows + 1), LAMBDA t2 :
    Then(append_empty_cells([t2 EXCEPT !.rows[index + 1] = NullSlot],
                            index + 1, number_of_cells, moves),
         ALLOCATION_FAILED, RowAdded))))

\* loop of delete_row moving the slots k -> k-1 (1-based); the last slot keeps
\* its pointer
RECURSIVE delete_row_shift(_, _)
delete_row_shift(t, k) ==
    IF k > t.num_of_rows THEN Ok(t)
    ELSE IF t.rows[k].cells = 0 THEN Err(t, FUNCTION_ERROR)
    ELSE delete_row_shift([t EXCEPT !.rows[k - 1] = t.rows[k]], k + 1)

delete_row(t, index) ==
    IF t.rows = <<>> \/ t.num_of_rows = 0 THEN Err(t, VALUE_ERROR)
    ELSE IF index < 0 \/ index >= t.num_of_rows THEN Err(t, FUNCTION_ARGUMENT_ERROR)
    ELSE Try(deallocate_row(t, index + 1), LAMBDA t1 :
         Try(IF index < (t1.num_of_rows - 1)
             THEN delete_row_shift(t1, index + 2) ELSE Ok(t1), LAMBDA t2 :
             Ok([t2 EXCEPT !.num_of_rows = @ - 1])))

\* loop of delete_rows, i running from end_index down to start_index
RECURSIVE delete_rows_from(_, _, _)
delete_rows_from(t, start_index, k) ==
    IF k < start_index THEN Ok(t)
    ELSE Try(delete_row(t, k), LAMBDA t1 : delete_rows_from(t1, start_index, k - 1))

delete_rows(t, start_index, end_index) ==
    delete_rows_from(t, start_index,
                     IF end_index >= t.num_of_rows THEN t.num_of_rows - 1 ELSE end_index)

-----------------------------------------------------------------------------
(* Data editing *)

\* the result of parse_command_argument: indexes are 0-based <<row, col>>
ArgRes(ret, indexes, ub) == [ret |-> ret, indexes |-> indexes, ub |-> ub]

\* the for loop of parse_command_argument over the two parts k.. (0-based)
RECURSIVE parse_argument_from(_, _, _, _)
parse_argument_from(command_argument, t, k, indexes) ==
    IF k >= 2 THEN [ret |-> NO_ERROR, indexes |-> indexes]
    ELSE With(get_substring(command_argument, NULL, ",", k, TRUE, FALSE), LAMBDA g :
             IF g.ret # NO_ERROR THEN [ret |-> g.ret, indexes |-> indexes]
             ELSE IF is_string_llint(g.substring)
             THEN parse_argument_from(command_argument, t, k + 1,
                      [indexes EXCEPT ![k + 1] = string_to_llint(g.substring).val])
             ELSE IF strings_equal(g.substring, <<"-">>)
             THEN parse_argument_from(command_argument, t, k + 1,
                      [indexes EXCEPT ![k + 1] = IF k = 0 THEN t.num_of_rows ELSE NumCols(t)])
             ELSE [ret |-> COMMAND_ERROR, indexes |-> indexes])

\* the end of parse_command_argument: both indexes are decremented and tested
\* against the table
checked_indexes(p, t, r, c) ==
    ArgRes(IF p.ret # NO_ERROR THEN p.ret
           ELSE IF r < 0 \/ r >= t.num_of_rows \/ c < 0 \/ c >= NumCols(t)
           THEN COMMAND_ERROR ELSE NO_ERROR,
           <<r, c>>, FALSE)

parse_command_argument(command_argument, t) ==
    IF command_argument = NULL THEN ArgRes(FUNCTION_ERROR, <<0, 0>>, TRUE)
    ELSE IF \/ ~string_start_with(command_argument, <<"[">>)
            \/ ~string_end_with(command_argument, <<"]">>)
    THEN ArgRes(COMMAND_ERROR, <<0, 0>>, FALSE)
    ELSE With(trim_se(command_argument), LAMBDA arg :
             IF count_char(arg, ",", TRUE) + 1 # 2 THEN ArgRes(COMMAND_ERROR, <<0, 0>>, FALSE)
             ELSE IF t.num_of_rows = 0 \/ NumCols(t) = 0
             THEN ArgRes(FUNCTION_ERROR, <<0, 0>>, FALSE)
             ELSE With(parse_argument_from(arg, t, 0, <<0, 0>>), LAMBDA p :
                      checked_indexes(p, t, p.indexes[1] - 1, p.indexes[2] - 1)))

\* the loops of set_value_in_area over the cells a[k..]
RECURSIVE set_value_from(_, _, _, _)
set_value_from(t, string, a, k) ==
    IF k > Len(a) THEN Ok(t)
    ELSE Try(set_cell(string, t, a[k][1] + 1, a[k][2]), LAMBDA t1 :
             set_value_from(t1, string, a, k + 1))

set_value_in_area(t, sel, string) ==
    IF t.num_of_rows = 0 \/ NumCols(t) = 0 \/ string = NULL THEN Err(t, COMMAND_ERROR)
    ELSE IF RowsUndefined(t, sel) THEN Undefined(t)
    ELSE set_value_from(t, string, Area(t, sel), 1)

\* r, c outside the table as swap, sum, avg, count and len test it
TargetOutside(t, r, c) ==
    r < 0 \/ r > (t.num_of_rows - 1) \/ c < 0 \/ c > (NumCols(t) - 1)

\* the loops of swap_cells over the cells a[k..]; the return values of its
\* calls of set_cell are not read
RECURSIVE swap_from(_, _, _, _, _)
swap_from(t, r, c, a, k) ==
    IF k > Len(a) THEN Ok(t)
    ELSE IF a[k][1] = r /\ a[k][2] = c THEN swap_from(t, r, c, a, k + 1)
    ELSE IF \/ ~CellValid(t, r + 1, c) \/ Content(t, r + 1, c) = NULL
            \/ ~Valid(t, a[k]) \/ ContentAt(t, a[k]) = NULL
    THEN Undefined(t)
    ELSE With(Content(t, r + 1, c), LAMBDA buff1 :
         With(ContentAt(t, a[k]), LAMBDA buff2 :
         With(set_cell(buff2, t, r + 1, c).t, LAMBDA t1 :
             swap_from(set_cell(buff1, t1, a[k][1] + 1, a[k][2]).t, r, c, a, k + 1))))

swap_cells(t, sel, r, c) ==
    IF TargetOutside(t, r, c) THEN Err(t, FUNCTION_ARGUMENT_ERROR)
    ELSE IF RowsUndefined(t, sel) THEN Undefined(t)
    ELSE Ok(swap_from(t, r, c, Area(t, sel), 1).t)

\* the state of the loops of sum_cells and avg_cells
SumRes(nan, ub, sum, num_of_vals) ==
    [nan |-> nan, ub |-> ub, sum |-> sum, num_of_vals |-> num_of_vals]

\* the loops of sum_cells and avg_cells over the cells a[k..]
RECURSIVE sum_from(_, _, _, _, _)
sum_from(t, a, k, sum, num_of_vals) ==
    IF k > Len(a) THEN SumRes(FALSE, FALSE, sum, num_of_vals)
    ELSE IF ~Valid(t, a[k]) THEN SumRes(FALSE, TRUE, sum, num_of_vals)
    ELSE With(ContentAt(t, a[k]), LAMBDA content :
             IF is_string_ldouble(content)
             THEN sum_from(t, a, k + 1, LdAdd(sum, string_to_ldouble(content).val),
                           num_of_vals + 1)
             ELSE SumRes(TRUE, FALSE, sum, num_of_vals))

\* set_cell(string, &table->rows[r].cells[c]) with the return value passed on
set_target(t, r, c, string) == set_cell(string, t, r + 1, c)

sum_cells(t, sel, r, c) ==
    IF TargetOutside(t, r, c) THEN Err(t, FUNCTION_ARGUMENT_ERROR)
    ELSE IF RowsUndefined(t, sel) THEN Undefined(t)
    ELSE With(sum_from(t, Area(t, sel), 1, Num(0, 1), 0), LAMBDA s :
             IF s.ub THEN Undefined(t)
             ELSE IF s.nan THEN set_target(t, r, c, <<"N", "a", "N">>)
             ELSE set_target(t, r, c, ldouble_to_string(s.sum)))

avg_cells(t, sel, r, c) ==
    IF TargetOutside(t, r, c) THEN Err(t, FUNCTION_ARGUMENT_ERROR)
    ELSE IF RowsUndefined(t, sel) THEN Undefined(t)
    ELSE With(sum_from(t, Area(t, sel), 1, Num(0, 1), 0), LAMBDA s :
             IF s.ub THEN Undefined(t)
             ELSE IF s.nan THEN set_target(t, r, c, <<"N", "a", "N">>)
             ELSE set_target(t, r, c, ldouble_to_string(LdDiv(s.sum, Num(s.num_of_vals, 1)))))

count_cells(t, sel, r, c) ==
    IF TargetOutside(t, r, c) THEN Err(t, FUNCTION_ARGUMENT_ERROR)
    ELSE IF AreaUndefined(t, sel) THEN Undefined(t)
    ELSE With(Area(t, sel), LAMBDA a :
         With(Cardinality({k \in 1..Len(a) : ~strings_equal(ContentAt(t, a[k]), EMPTY_CELL)}),
              LAMBDA num_of_cells :
             set_target(t, r, c, ldouble_to_string(Num(num_of_cells, 1)))))

\* cell_len reads the cell (ir2, ic2) whatever the size of the table
cell_len(t, sel, r, c) ==
    IF TargetOutside(t, r, c) THEN Err(t, FUNCTION_ARGUMENT_ERROR)
    ELSE IF ~CellValid(t, sel.lld_ir2 + 1, sel.lld_ic2) THEN Undefined(t)
    ELSE With(Content(t, sel.lld_ir2 + 1, sel.lld_ic2), LAMBDA content :
         With(IF content # NULL THEN Len(content) ELSE 0, LAMBDA cell_length :
             set_target(t, r, c, ldouble_to_string(Num(cell_length, 1)))))

\* the switch of execute_data_editing_command on the commands with a cell
\* argument; r, c are the parsed indexes
data_command_on(t, sel, findex, r, c) ==
    IF findex = 2 THEN swap_cells(t, sel, r, c)
    ELSE IF findex = 3 THEN sum_cells(t, sel, r, c)
    ELSE IF findex = 4 THEN avg_cells(t, sel, r, c)
    ELSE IF findex = 5 THEN count_cells(t, sel, r, c)
    ELSE IF findex = 6 THEN cell_len(t, sel, r, c)
    ELSE Err(t, COMMAND_ERROR)

\* execute_data_editing_command; "findex" is the position of the command in
\* DATA_EDITING_COMMANDS
execute_data_editing_command(t, sel, findex, arguments) ==
    IF findex = 0 THEN set_value_in_area(t, sel, arguments)
    ELSE IF findex = 1 THEN set_value_in_area(t, sel, EMPTY_CELL)
    ELSE With(parse_command_argument(arguments, t), LAMBDA p :
             IF p.ub THEN Undefined(t)
             ELSE IF p.ret # NO_ERROR THEN Err(t, p.ret)
             ELSE data_command_on(t, sel, findex, p.indexes[1], p.indexes[2]))

\* execute_table_editing_comm; "findex" is the position of the command in
\* TABLE_EDITING_COMMANDS
execute_table_editing_comm(t, sel, findex, moves) ==
    IF findex = 0 THEN insert_row(t, sel.lld_ir1, moves)
    ELSE IF findex = 1
    THEN IF sel.lld_ir2 >= t.num_of_rows - 1 THEN append_row(t, moves)
         ELSE insert_row(t, sel.lld_ir2 + 1, moves)
    ELSE IF findex = 2 THEN delete_rows(t, sel.lld_ir1, sel.lld_ir2)
    ELSE IF findex = 3
    THEN IF t.num_of_rows > 0 THEN insert_col(t, sel.lld_ic1, moves) ELSE Ok(t)
    ELSE IF findex = 4
    THEN IF t.num_of_rows > 0
         THEN IF sel.lld_ic2 >= NumCols(t) - 1 THEN append_col(t, moves)
              ELSE insert_col(t, sel.lld_ic2 + 1, moves)
         ELSE Ok(t)
    ELSE IF findex = 5
    THEN IF t.num_of_rows > 0 THEN delete_cols(t, sel.lld_ic1, sel.lld_ic2) ELSE Ok(t)
    ELSE Err(t, COMMAND_ERROR)

-----------------------------------------------------------------------------
(* Temporary variables *)

\* results of the temporary variable functions: table, variables, return value
VarRes(t, variables, ret) == [t |-> t, variables |-> variables, ret |-> ret]

\* set_temporary_variable storing the content of the first cell of the row, not
\* of the cell (ir1, ic1)
set_temporary_variable_first(t, sel, variables, index) ==
    IF /\ t.num_of_rows > 0 /\ t.rows[1].num_of_cells > 0
       /\ t.num_of_rows > sel.lld_ir1 /\ t.rows[1].num_of_cells > sel.lld_ic1
    THEN IF t.heap[t.rows[sel.lld_ir1 + 1].cells] = <<>>
         THEN [t |-> [t EXCEPT !.ub = TRUE], variables |-> variables, ret |-> 5]
         ELSE [t |-> t,
               variables |-> [variables EXCEPT
                                 ![index + 1] = t.heap[t.rows[sel.lld_ir1 + 1].cells][1]],
               ret |-> 0]
    ELSE [t |-> t, variables |-> variables, ret |-> 0]

\* index is the 0-based number of the variable
set_temporary_variable(t, sel, variables, index) ==
    IF /\ t.num_of_rows > 0 /\ NumCols(t) > 0
       /\ t.num_of_rows > sel.lld_ir1 /\ NumCols(t) > sel.lld_ic1
    THEN IF ~CellValid(t, sel.lld_ir1 + 1, sel.lld_ic1)
         THEN VarRes(Undefined(t).t, variables, FUNCTION_ERROR)
         ELSE With(Content(t, sel.lld_ir1 + 1, sel.lld_ic1), LAMBDA content :
                  IF content # NULL
                  THEN VarRes(t, [variables EXCEPT ![index + 1] = content], NO_ERROR)
                  ELSE VarRes(t, variables, NO_ERROR))
    ELSE VarRes(t, variables, NO_ERROR)

set_cell_from_temporary_variable(t, sel, variables, index) ==
    IF t.num_of_rows > 0 /\ NumCols(t) > 0 /\ variables[index + 1] # NULL
    THEN With(set_value_in_area(t, sel, variables[index + 1]), LAMBDA s :
             VarRes(s.t, variables, s.ret))
    ELSE VarRes(t, variables, NO_ERROR)

\* the text increase_temporary_variable stores for the value temp_val
increased_string(temp_val) ==
    IF is_ldouble_lint(temp_val) THEN lint_to_string(temp_val.num)
    ELSE ldouble_to_string(temp_val)

increase_temporary_variable(t, variables, index) ==
    IF variables[index + 1] # NULL
    THEN With(IF is_string_ldouble(variables[index + 1])
              THEN LdAdd(string_to_ldouble(variables[index + 1]).val, Num(1, 1))
              ELSE Num(1, 1), LAMBDA temp_val :
             VarRes(t, [variables EXCEPT ![index + 1] = increased_string(temp_val)],
                    NO_ERROR))
    ELSE VarRes(t, [variables EXCEPT ![index + 1] = <<"1">>], NO_ERROR)

\* the switch of execute_temp_var_command on the variable arg_lli
temp_var_command_on(t, sel, findex, variables, arg_lli) ==
    IF findex = 0
    THEN IF sel.lld_ir1 # sel.lld_ir2 \/ sel.lld_ic1 # sel.lld_ic2
         THEN VarRes(t, variables, COMMAND_ERROR)
         ELSE set_temporary_variable(t, sel, variables, arg_lli)
    ELSE IF findex = 1 THEN set_cell_from_temporary_variable(t, sel, variables, arg_lli)
    ELSE IF findex = 2 THEN increase_temporary_variable(t, variables, arg_lli)
    ELSE VarRes(t, variables, COMMAND_ERROR)

\* execute_temp_var_command; "findex" is the position of the command in
\* TEMP_VAR_COMMANDS
execute_temp_var_command(t, sel, findex, arguments, variables) ==
    IF arguments = NULL THEN VarRes(Undefined(t).t, variables, FUNCTION_ERROR)
    ELSE With(string_to_llint(trim_start(arguments)), LAMBDA conv :
             IF conv.val < 0 \/ conv.val >= NUMBER_OF_TEMPORARY_VARIABLES
             THEN VarRes(t, variables, COMMAND_ERROR)
             ELSE IF conv.ret # NO_ERROR THEN VarRes(t, variables, conv.ret)
             ELSE temp_var_command_on(t, sel, findex, variables, conv.val))

-----------------------------------------------------------------------------
(* Commands *)

TABLE_EDITING_COMMANDS ==
    << <<"i", "r", "o", "w">>, <<"a", "r", "o", "w">>, <<"d", "r", "o", "w">>,
       <<"i", "c", "o", "l">>, <<"a", "c", "o", "l">>, <<"d", "c", "o", "l">> >>
DATA_EDITING_COMMANDS ==
    << <<"s", "e", "t">>, <<"c", "l", "e", "a", "r">>, <<"s", "w", "a", "p">>,
       <<"s", "u", "m">>, <<"a", "v", "g">>, <<"c", "o", "u", "n", "t">>, <<"l", "e", "n">> >>
TEMP_VAR_COMMANDS ==
    << <<"d", "e", "f">>, <<"u", "s", "e">>, <<"i", "n", "c">> >>

\* the body of the second loop of parse_commands for one raw command: a
\* Base_command
parse_commands(raw) ==
    With(IF string_start_with(raw, <<"[">>) /\ string_end_with(raw, <<"]">>)
         THEN get_substring(raw, NULL, "\\0", 0, FALSE, TRUE)
         ELSE get_substring(raw, NULL, " ", 0, FALSE, TRUE), LAMBDA g :
        [function |-> g.substring,
         arguments |-> IF g.rest # NULL /\ strings_equal(g.rest, EMPTY_CELL) THEN NULL
                       ELSE g.rest])

\* get_commands for a command string given in the argument: [ret, commands];
\* an empty piece leaves its entry NULL, since get_substring allocates nothing
RECURSIVE get_commands_from(_, _, _, _)
get_commands_from(raw, num_of_commands, k, commands) ==
    IF k >= num_of_commands THEN [ret |-> NO_ERROR, commands |-> commands]
    ELSE With(get_substring(raw, NULL, ";", k, TRUE, FALSE), LAMBDA g :
            IF g.ret # NO_ERROR THEN [ret |-> g.ret, commands |-> commands]
            ELSE get_commands_from(raw, num_of_commands, k + 1, Append(commands, g.substring)))

get_commands(raw) ==
    With(count_char(raw, ";", TRUE) + 1, LAMBDA num_of_commands :
        IF num_of_commands = 1 /\ strings_equal(raw, EMPTY_CELL)
        THEN [ret |-> NO_ERROR, commands |-> <<>>]
        ELSE get_commands_from(raw, num_of_commands, 0, <<>>))

\* parse_commands over the whole store: [ret, ub, commands]; for a NULL entry
\* string_start_with calls strlen on the null pointer
RECURSIVE parse_commands_from(_, _, _)
parse_commands_from(raw_command_store, k, commands) ==
    IF k > Len(raw_command_store) THEN [ret |-> NO_ERROR, ub |-> FALSE, commands |-> commands]
    ELSE IF raw_command_store[k] = NULL
    THEN [ret |-> NO_ERROR, ub |-> TRUE, commands |-> commands]
    ELSE parse_commands_from(raw_command_store, k + 1,
                             Append(commands, parse_commands(raw_command_store[k])))

parse_command_store(raw_command_store) == parse_commands_from(raw_command_store, 1, <<>>)

is_command_selector(command) ==
    /\ command.arguments = NULL
    /\ string_start_with(command.function, <<"[">>)
    /\ string_end_with(command.function, <<"]">>)

\* get_*_command_index: 0-based position of the function in the list, -1 if absent
CommandIndex(command, list) ==
    IF \E k \in 1..Len(list) : strings_equal(command.function, list[k])
    THEN (CHOOSE k \in 1..Len(list) : strings_equal(command.function, list[k])) - 1
    ELSE -1

is_table_editing_command(command) == CommandIndex(command, TABLE_EDITING_COMMANDS) # -1
is_data_editing_command(command) == CommandIndex(command, DATA_EDITING_COMMANDS) # -1
is_temp_var_command(command) == CommandIndex(command, TEMP_VAR_COMMANDS) # -1

get_type_of_command(command) ==
    IF is_table_editing_command(command) THEN "TABLE_EDITING_COMMAND"
    ELSE IF is_data_editing_command(command) THEN "DATA_EDITING_COMMAND"
    ELSE IF is_temp_var_command(command) THEN "TEMP_VAR_COMMAND"
    ELSE "UNKNOWN"

-----------------------------------------------------------------------------
(* Inputs *)

FileChars == {"a", ",", ";", "'", "\\", "\r", "\n"}
DelimSets == {<<",">>, <<",", ";">>}

RECURSIVE SeqsUpTo(_, _)
SeqsUpTo(S, n) ==
    IF n = 0 THEN {<<>>}
    ELSE With(SeqsUpTo(S, n - 1), LAMBDA shorter :
             shorter \cup {Append(s, c) : s \in {x \in shorter : Len(x) = n - 1}, c \in S})

\* the input files of the command runs: a 2x2 table with a number, a text and
\* an empty cell; a 1x1 table; the empty file
File22 == <<"1", ",", "a", "\n", "2", ",", "\n">>
File11 == <<"x", "\n">>
InputFiles == {File22, File11, <<>>}

\* a command text from its words, e.g. Text(<<"[1,1]">>), Text(<<"set", " ", "x">>)
RECURSIVE Chars(_, _)
Chars(w, k) == IF k > Len(w) THEN <<>> ELSE <<SubSeq(w, k, k)>> \o Chars(w, k + 1)
Txt(w) == Chars(w, 1)

-----------------------------------------------------------------------------
(* main *)

NoCommand == [function |-> NULL, arguments |-> NULL]

InitWith(files, delimsets) ==
    /\ pc = "start"
    /\ raw_commands = NULL
    /\ base_commands_store = <<>>
    /\ delims \in delimsets
    /\ infile \in files
    /\ outfile = NULL
    /\ table = EmptyTable(delims)
    /\ selector = UninitSelector
    /\ temp_selector = UninitSelector
    /\ temp_var_store = NoTempVars
    /\ c_comm = NoCommand
    /\ i = 0
    /\ ret_val = NO_ERROR
    /\ error_flag = -1

\* main after load_table and normalize_number_of_cols returned n: on an error
\* the table is released and main returns the code; else execute_commands
\* starts with its prologue
Loaded(n) ==
    IF n.t.ub
    THEN /\ pc' = "undefined"
         /\ table' = n.t
         /\ UNCHANGED <<selector, temp_selector, temp_var_store, error_flag>>
    ELSE IF n.ret # NO_ERROR
    THEN \E d \in {deallocate_table(n.t)} :
            /\ pc' = IF d.t.ub THEN "undefined" ELSE "exit"
            /\ table' = d.t
            /\ error_flag' = n.ret
            /\ UNCHANGED <<selector, temp_selector, temp_var_store>>
    ELSE \E m \in {Request(n.t, 1)} :
            \* init_temp_var_store allocates the array of the variables
            IF m.ret # NO_ERROR
            THEN \E d \in {deallocate_table(m.t)} :
                    /\ pc' = IF d.t.ub THEN "undefined" ELSE "exit"
                    /\ table' = d.t
                    /\ error_flag' = ALLOCATION_FAILED
                    /\ UNCHANGED <<selector, temp_selector, temp_var_store>>
            ELSE /\ pc' = "exec"
                 /\ table' = m.t
                 /\ selector' = init_selector(selector)
                 /\ temp_selector' = init_selector(temp_selector)
                 /\ temp_var_store' = init_temp_var_store
                 /\ UNCHANGED error_flag

\* main from load_table up to the first command: load, shape normalization,
\* and the prologue of execute_commands
LoadTable ==
    /\ pc = "start"
    /\ \E l \in {load_table(delims, infile, table)} :
          IF l.ret = NO_ERROR
          THEN \E n \in {normalize_number_of_cols(l.t)} : Loaded(n)
          ELSE Loaded(l)
    /\ UNCHANGED <<raw_commands, base_commands_store, delims, infile, outfile, c_comm, i, ret_val>>

\* the run has left defined behaviour while command c was being executed
Crash(c) ==
    /\ pc' = "undefined"
    /\ c_comm' = c
    /\ UNCHANGED <<table, selector, temp_selector, temp_var_store, i, ret_val>>

\* the end of one pass of the loop of execute_commands: break on an error
Continue(c, ret) ==
    /\ c_comm' = c
    /\ ret_val' = ret
    /\ pc' = IF ret # NO_ERROR THEN "failed" ELSE "exec"
    /\ i' = IF ret # NO_ERROR THEN i ELSE i + 1

\* a pass that, after its command, pulls the current selection back into the
\* rows of the table
Executed_clamped(c, e, variables, debug) ==
    IF e.t.ub \/ (debug /\ e.ret = NO_ERROR /\ ~PrintDefined(e.t))
    THEN /\ pc' = "undefined"
         /\ c_comm' = c
         /\ UNCHANGED <<table, selector, temp_selector, temp_var_store, i, ret_val>>
    ELSE /\ table' = e.t
         /\ temp_var_store' = variables
         /\ c_comm' = c
         /\ ret_val' = e.ret
         /\ pc' = IF e.ret # NO_ERROR THEN "failed" ELSE "exec"
         /\ i' = IF e.ret # NO_ERROR THEN i ELSE i + 1
         /\ selector' = [selector EXCEPT !.lld_ir2 = IF @ >= e.t.num_of_rows
                                                      THEN e.t.num_of_rows - 1 ELSE @]
         /\ UNCHANGED temp_selector

\* the end of a pass that executed a command which is no selector, e being
\* what the command returned; the DEBUG build prints the table after a
\* command that returned no error
Executed(c, e, variables, debug) ==
    IF e.t.ub \/ (debug /\ e.ret = NO_ERROR /\ ~PrintDefined(e.t))
    THEN Crash(c)
    ELSE /\ table' = e.t
         /\ temp_var_store' = variables
         /\ Continue(c, e.ret)
         /\ UNCHANGED <<selector, temp_selector>>

\* one pass of the loop of execute_commands for a selector command
SelectorStep(cmds, num_of_commands) ==
    /\ pc = "exec"
    /\ i < num_of_commands
    /\ \E raw \in cmds : \E c \in {parse_commands(raw)} :
          /\ c.function # NULL
          /\ is_command_selector(c)
          /\ \E s \in {set_selector(selector, temp_selector, c.function, table)} :
                IF s.ub THEN Crash(c)
                ELSE /\ selector' = s.sel
                     /\ temp_selector' = s.temp
                     /\ Continue(c, s.ret)
                     /\ UNCHANGED <<table, temp_var_store>>
    /\ UNCHANGED <<raw_commands, base_commands_store, delims, infile, outfile, error_flag>>

\* one pass of the loop for a table editing command
TableEditingStep(cmds, num_of_commands, debug) ==
    /\ pc = "exec"
    /\ i < num_of_commands
    /\ \E raw \in cmds, moves \in BOOLEAN : \E c \in {parse_commands(raw)} :
          /\ c.function # NULL
          /\ ~is_command_selector(c)
          /\ get_type_of_command(c) = "TABLE_EDITING_COMMAND"
          /\ IF debug /\ ~PrintDefined(table) THEN Crash(c)
             ELSE \E e \in {execute_table_editing_comm(
                                table, selector, CommandIndex(c, TABLE_EDITING_COMMANDS),
                                moves)} :
                     Executed(c, e, temp_var_store, debug)
    /\ UNCHANGED <<raw_commands, base_commands_store, delims, infile, outfile, error_flag>>

\* one pass of the loop for a data editing command
DataEditingStep(cmds, num_of_commands, debug) ==
    /\ pc = "exec"
    /\ i < num_of_commands
    /\ \E raw \in cmds : \E c \in {parse_commands(raw)} :
          /\ c.function # NULL
          /\ ~is_command_selector(c)
          /\ get_type_of_command(c) = "DATA_EDITING_COMMAND"
          /\ IF debug /\ ~PrintDefined(table) THEN Crash(c)
             ELSE \E e \in {IF table.num_of_rows > 0 /\ NumCols(table) > 0
                            THEN execute_data_editing_command(
                                     table, selector, CommandIndex(c, DATA_EDITING_COMMANDS),
                                     c.arguments)
                            ELSE Ok(table)} :
                     Executed(c, e, temp_var_store, debug)
    /\ UNCHANGED <<raw_commands, base_commands_store, delims, infile, outfile, error_flag>>

\* one pass of the loop for a temporary variable command
TempVarStep(cmds, num_of_commands, debug) ==
    /\ pc = "exec"
    /\ i < num_of_commands
    /\ \E raw \in cmds : \E c \in {parse_commands(raw)} :
          /\ c.function # NULL
          /\ ~is_command_selector(c)
          /\ get_type_of_command(c) = "TEMP_VAR_COMMAND"
          /\ IF debug /\ ~PrintDefined(table) THEN Crash(c)
             ELSE \E e \in {IF table.num_of_rows > 0 /\ NumCols(table) > 0
                            THEN execute_temp_var_command(
                                     table, selector, CommandIndex(c, TEMP_VAR_COMMANDS),
                                     c.arguments, temp_var_store)
                            ELSE VarRes(table, temp_var_store, NO_ERROR)} :
                     Executed(c, e, e.variables, debug)
    /\ UNCHANGED <<raw_commands, base_commands_store, delims, infile, outfile, error_flag>>

\* one pass of the loop for a command of no known type
UnknownStep(cmds, num_of_commands, debug) ==
    /\ pc = "exec"
    /\ i < num_of_commands
    /\ \E raw \in cmds : \E c \in {parse_commands(raw)} :
          /\ c.function # NULL
          /\ ~is_command_selector(c)
          /\ get_type_of_command(c) = "UNKNOWN"
          /\ IF debug /\ ~PrintDefined(table) THEN Crash(c)
             ELSE /\ Continue(c, COMMAND_ERROR)
                  /\ UNCHANGED <<table, selector, temp_selector, temp_var_store>>
    /\ UNCHANGED <<raw_commands, base_commands_store, delims, infile, outfile, error_flag>>

\* execute_commands has left its loop on an error: it releases the temporary
\* variables and returns, main releases the table and returns the error code
MainFail ==
    /\ pc = "failed"
    /\ \E d \in {deallocate_table(table)} :
          /\ table' = d.t
          /\ pc' = IF d.t.ub THEN "undefined" ELSE "exit"
          /\ error_flag' = IF d.t.ub THEN error_flag ELSE ret_val
    /\ temp_var_store' = NoTempVars
    /\ UNCHANGED <<raw_commands, base_commands_store, delims, infile, outfile, selector, temp_selector, c_comm, i, ret_val>>

\* the command list is exhausted: execute_commands releases the temporary
\* variables and returns NO_ERROR; main dumps the table (debug) or calls
\* save_table, releases the table and returns
MainEnd(debug) ==
    /\ pc = "exec"
    /\ IF ~PrintDefined(table)
       THEN /\ pc' = "undefined"
            /\ UNCHANGED <<outfile, table, error_flag>>
       ELSE \E d \in {deallocate_table(table)} :
               /\ outfile' = IF debug THEN outfile ELSE save_table(table)
               /\ table' = d.t
               /\ pc' = IF d.t.ub THEN "undefined" ELSE "exit"
               /\ error_flag' = IF d.t.ub THEN error_flag ELSE NO_ERROR
    /\ temp_var_store' = NoTempVars
    /\ UNCHANGED <<raw_commands, base_commands_store, delims, infile, selector, temp_selector, c_comm, i, ret_val>>

-----------------------------------------------------------------------------
(* Load and save of a file with an empty command list, in the build without DEBUG *)

InitLoad == InitWith(SeqsUpTo(FileChars, MaxFileLen), DelimSets)

SaveTable == MainEnd(FALSE)

NextLoad == LoadTable \/ SaveTable

SpecLoad == InitLoad /\ [][NextLoad]_vars

-----------------------------------------------------------------------------
(* Runs of the program as built (DEBUG defined) over the command texts Cmds *)

Cmds ==
    { Txt("[1,1]"), Txt("[2,2]"), Txt("[1,_]"), Txt("[_,2]"), Txt("[_,_]"), Txt("[-,-]"),
      Txt("[2,-]"), Txt("[-,1]"), Txt("[_,-]"), Txt("[-,_]"),
      Txt("[1,1,2,2]"), Txt("[1,2,-,-]"), Txt("[2,1,1,1]"), Txt("[-,1,2,2]"),
      Txt("[1,_,2,2]"), Txt("[3,1]"), Txt("[0,1]"),
      Txt("[set]"), Txt("[_]"), Txt("[min]"), Txt("[max]"), Txt("[find a]"),
      Txt("irow"), Txt("arow"), Txt("drow"), Txt("icol"), Txt("acol"), Txt("dcol"),
      Txt("set x"), Txt("clear"), Txt("swap [1,1]"), Txt("sum [1,2]"), Txt("avg [2,2]"),
      Txt("count [1,1]"), Txt("len [1,1]"), Txt("swap [3,3]"),
      Txt("def _0"), Txt("use _0"), Txt("inc _0"), Txt("inc _x"),
      Txt("foo") }

Init == InitWith(InputFiles, {<<",">>})

SelectorCommand == SelectorStep(Cmds, MaxCmds)
TableEditingCommand == TableEditingStep(Cmds, MaxCmds, DEBUG)
DataEditingCommand == DataEditingStep(Cmds, MaxCmds, DEBUG)
TempVarCommand == TempVarStep(Cmds, MaxCmds, DEBUG)
UnknownCommand == UnknownStep(Cmds, MaxCmds, DEBUG)
Finish == MainEnd(DEBUG)

Next ==
    \/ LoadTable
    \/ SelectorCommand
    \/ TableEditingCommand
    \/ DataEditingCommand
    \/ TempVarCommand
    \/ UnknownCommand
    \/ MainFail
    \/ Finish

Spec == Init /\ [][Next]_vars

-----------------------------------------------------------------------------
(* Runs over every coordinate selector with one-character parts, on the tables *)
(* that the row and column commands make of the input                          *)

SelParts == {<<"0">>, <<"1">>, <<"2">>, <<"3">>, <<"-">>, <<"_">>}

Sel2(a, b) == <<"[">> \o a \o <<",">> \o b \o <<"]">>
Sel4(a, b, c, d) == <<"[">> \o a \o <<",">> \o b \o <<",">> \o c \o <<",">> \o d \o <<"]">>

SelCmds ==
    {Sel2(a, b) : a, b \in SelParts}
        \cup {Sel4(a, b, c, d) : a, b, c, d \in SelParts}
        \cup {Txt("[set]"), Txt("[_]"), Txt("[min]"), Txt("[max]"), Txt("[find a]")}

ShapeCmds == {Txt("irow"), Txt("arow"), Txt("drow"), Txt("icol"), Txt("acol"), Txt("dcol")}

InitSel == InitWith({File22, File11}, {<<",">>})

CoordinateSelector == SelectorStep(SelCmds, MaxSelCmds)
ShapeCommand == TableEditingStep(ShapeCmds, MaxSelCmds, DEBUG)

NextSel ==
    \/ LoadTable
    \/ CoordinateSelector
    \/ ShapeCommand
    \/ MainFail
    \/ Finish

SpecSel == InitSel /\ [][NextSel]_vars


-----------------------------------------------------------------------------
(* Runs of [find STR], [min] and [max] on tables with several matching cells,  *)
(* equal numbers, quoted numbers, an empty cell, NaN and infinities            *)

FindFiles ==
    { Txt("b,a\nab,a\n"),
      Txt("2,1\n1,2\n"),
      Txt("nan,'3'\n,1e1\n"),
      Txt("-inf,x\nx,inf\n"),
      Txt("x,y\n") }

FindCmds ==
    { Txt("[_,_]"), Txt("[1,_]"), Txt("[2,_]"), Txt("[_,1]"), Txt("[_,2]"), Txt("[2,2]"),
      Txt("[1,2,2,2]"), Txt("[3,1]"), Txt("[set]"), Txt("[_]"),
      Txt("[find a]"), Txt("[find ab]"), Txt("[find c]"), Txt("[find ]"), Txt("[find 1]"),
      Txt("[find]"), Txt("[min]"), Txt("[max]") }

InitFind == InitWith(FindFiles, {<<",">>})

FindSelector == SelectorStep(FindCmds, MaxFindCmds)

NextFind ==
    \/ LoadTable
    \/ FindSelector
    \/ MainFail
    \/ Finish

SpecFind == InitFind /\ [][NextFind]_vars

-----------------------------------------------------------------------------
(* Runs of the row and column commands on a table whose cells all differ,      *)
(* under selections of one cell, of a block, and of all cells                  *)

File32 == Txt("a,b\nc,d\ne,f\n")

EditSelectors ==
    { Txt("[2,1]"), Txt("[2,2]"), Txt("[3,2]"), Txt("[1,1,2,2]"), Txt("[2,1,3,2]"),
      Txt("[_,_]"), Txt("[4,1]") }

InitEdit == InitWith({File32, File22, File11}, {<<",">>})

EditSelector == SelectorStep(EditSelectors, MaxEditCmds)
EditCommand == TableEditingStep(ShapeCmds, MaxEditCmds, DEBUG)

NextEdit ==
    \/ LoadTable
    \/ EditSelector
    \/ EditCommand
    \/ MainFail
    \/ Finish

SpecEdit == InitEdit /\ [][NextEdit]_vars

-----------------------------------------------------------------------------
(* Data editing commands on tables of numbers and texts, with row commands
   and a temporary variable in between *)

File22n == Txt("1,2\n3,4\n")
File12n == Txt("0.5,1e1\n")
File12big == Txt("1234567,1\n")
DataSelectors == { Txt("[1,1]"), Txt("[2,2]"), Txt("[1,2]"), Txt("[_,_]"), Txt("[1,_]"),
                   Txt("[_,2]"), Txt("[set]") }
DataCmds == { Txt("set x"), Txt("set 'a b'"), Txt("set 7"), Txt("clear"),
              Txt("swap [1,1]"), Txt("swap [2,2]"), Txt("swap [-,-]"),
              Txt("sum [1,1]"), Txt("sum [1,2]"), Txt("sum [2,2]"), Txt("sum [3,1]") }
DataRowCmds == { Txt("drow"), Txt("arow"), Txt("dcol") }
DataVarCmds == { Txt("def _0") }

InitData == InitWith({File22n, File12n, File12big, File22}, {<<",">>})

DataSelector == SelectorStep(DataSelectors, MaxDataCmds)
DataCommand == DataEditingStep(DataCmds, MaxDataCmds, DEBUG)
DataRowCommand == TableEditingStep(DataRowCmds, MaxDataCmds, DEBUG)
DataVarCommand == TempVarStep(DataVarCmds, MaxDataCmds, DEBUG)

NextData ==
    \/ LoadTable
    \/ DataSelector
    \/ DataCommand
    \/ DataRowCommand
    \/ DataVarCommand
    \/ MainFail
    \/ Finish

SpecData == InitData /\ [][NextData]_vars

-----------------------------------------------------------------------------
(* The commands that write numbers: sum, count, len and inc, on tables with
   integers of one, six and seven digits and with a fraction, with row and
   column commands in between *)

File12frac == Txt("0.5,999999\n")
NumSelectors == { Txt("[1,1]"), Txt("[1,2]"), Txt("[2,1]"), Txt("[_,_]"), Txt("[1,_]") }
NumDataCmds == { Txt("sum [1,1]"), Txt("sum [1,2]"), Txt("count [1,1]"), Txt("count [2,2]"),
                 Txt("len [1,2]"), Txt("len [1,1]"), Txt("len [2,2]"), Txt("set abc") }
NumVarCmds == { Txt("def _0"), Txt("inc _0"), Txt("inc _1"), Txt("use _0") }

InitNum == InitWith({File12big, File12frac, File22}, {<<",">>})

NumSelector == SelectorStep(NumSelectors, MaxNumCmds)
NumDataCommand == DataEditingStep(NumDataCmds, MaxNumCmds, DEBUG)
NumVarCommand == TempVarStep(NumVarCmds, MaxNumCmds, DEBUG)
NumRowCommand == TableEditingStep(DataRowCmds, MaxNumCmds, DEBUG)

NextNum ==
    \/ LoadTable
    \/ NumSelector
    \/ NumDataCommand
    \/ NumVarCommand
    \/ NumRowCommand
    \/ MainFail
    \/ Finish

SpecNum == InitNum /\ [][NextNum]_vars

-----------------------------------------------------------------------------
(* The temporary variable commands with good and bad arguments, under
   selections of one and of several cells, with set and row and column
   commands in between *)

VarSelectors == { Txt("[1,1]"), Txt("[2,2]"), Txt("[1,2]"), Txt("[1,_]"), Txt("[_,_]") }
VarCmds == { Txt("def _0"), Txt("def _9"), Txt("use _0"), Txt("use _9"),
             Txt("inc _0"), Txt("inc _9"),
             Txt("def _10"), Txt("use _-1"), Txt("inc _x"), Txt("def _"), Txt("inc _1x"),
             Txt("use 12") }
VarDataCmds == { Txt("set x") }

File12long == Txt("1234561.5,7\n")

InitVar == InitWith({File22, File12frac, File12long}, {<<",">>})

VarSelector == SelectorStep(VarSelectors, MaxVarCmds)
VarCommand == TempVarStep(VarCmds, MaxVarCmds, DEBUG)
VarDataCommand == DataEditingStep(VarDataCmds, MaxVarCmds, DEBUG)
VarRowCommand == TableEditingStep(DataRowCmds, MaxVarCmds, DEBUG)

NextVar ==
    \/ LoadTable
    \/ VarSelector
    \/ VarCommand
    \/ VarDataCommand
    \/ VarRowCommand
    \/ MainFail
    \/ Finish

SpecVar == InitVar /\ [][NextVar]_vars

-----------------------------------------------------------------------------
(* The command parsing specification: main from get_commands to             *)
(* parse_commands, over every command string of up to MaxRawLen bytes.      *)

RawChars == {";", " ", "[", "]", "a", "'"}

InitArgs ==
    /\ pc = "args"
    /\ raw_commands \in SeqsUpTo(RawChars, MaxRawLen)
    /\ base_commands_store = <<>>
    /\ delims = <<",">>
    /\ infile = File22
    /\ outfile = NULL
    /\ table = EmptyTable(delims)
    /\ selector = UninitSelector
    /\ temp_selector = UninitSelector
    /\ temp_var_store = NoTempVars
    /\ c_comm = NoCommand
    /\ i = 0
    /\ ret_val = NO_ERROR
    /\ error_flag = -1

\* main from get_commands up to load_table: an error of either function ends
\* the run with its code
ParseArguments ==
    /\ pc = "args"
    /\ \E g \in {get_commands(raw_commands)} :
          IF g.ret # NO_ERROR
          THEN /\ pc' = "exit"
               /\ error_flag' = g.ret
               /\ UNCHANGED base_commands_store
          ELSE \E p \in {parse_command_store(g.commands)} :
                  IF p.ub
                  THEN /\ pc' = "undefined"
                       /\ UNCHANGED <<base_commands_store, error_flag>>
                  ELSE IF p.ret # NO_ERROR
                  THEN /\ pc' = "exit"
                       /\ error_flag' = p.ret
                       /\ UNCHANGED base_commands_store
                  ELSE /\ pc' = "start"
                       /\ base_commands_store' = p.commands
                       /\ UNCHANGED error_flag
    /\ UNCHANGED <<raw_commands, delims, infile, outfile, table, selector, temp_selector,
                   temp_var_store, c_comm, i, ret_val>>

NextArgs == ParseArguments
SpecArgs == InitArgs /\ [][NextArgs]_vars

-----------------------------------------------------------------------------
(* The allocation specification: runs in which malloc and realloc grant     *)
(* only the first requests made from load_table on, in the build without    *)
(* DEBUG.                                                                   *)

File2short == Txt("1\n2,3\n")
AllocFiles == {File22, File2short, File11}
AllocRowCmds == { Txt("arow"), Txt("acol"), Txt("drow") }

InitAlloc ==
    /\ pc = "start"
    /\ raw_commands = NULL
    /\ base_commands_store = <<>>
    /\ delims = <<",">>
    /\ infile \in AllocFiles
    /\ outfile = NULL
    /\ \E memory \in 0..MaxMemory : table = [EmptyTable(delims) EXCEPT !.memory = memory]
    /\ selector = UninitSelector
    /\ temp_selector = UninitSelector
    /\ temp_var_store = NoTempVars
    /\ c_comm = NoCommand
    /\ i = 0
    /\ ret_val = NO_ERROR
    /\ error_flag = -1

AllocRowCommand == TableEditingStep(AllocRowCmds, MaxAllocCmds, FALSE)
NextAlloc == LoadTable \/ AllocRowCommand \/ MainFail \/ SaveTable
SpecAlloc == InitAlloc /\ [][NextAlloc]_vars

-----------------------------------------------------------------------------
(* The cell argument specification: swap, sum, avg, count and len with well  *)
(* formed and with malformed arguments, on tables that drow and dcol shrink. *)

CellFunctions == {"swap", "sum", "avg", "count", "len"}
CellTexts ==
    { "[1,1]", "[2,2]", "[-,-]", "[1]", "[1,1,1]", "[0,1]", "[3,1]", "[1,3]", "[a,1]",
      "[1,-1]", "[,1]", "[1,]", "1,1", "[1,1", "[]" }
CellCmds ==
    {Txt(fn) \o <<" ">> \o Txt(a) : fn \in CellFunctions, a \in CellTexts}
        \cup {Txt(fn) : fn \in CellFunctions}
CellSelectors == { Txt("[1,1]"), Txt("[_,_]") }

InitCell == InitWith({File22, File11}, {<<",">>})
CellSelector == SelectorStep(CellSelectors, MaxCellCmds)
CellCommand == DataEditingStep(CellCmds, MaxCellCmds, DEBUG)
CellRowCommand == TableEditingStep(DataRowCmds, MaxCellCmds, DEBUG)
NextCell == LoadTable \/ CellSelector \/ CellCommand \/ CellRowCommand \/ MainFail \/ Finish
SpecCell == InitCell /\ [][NextCell]_vars

----

\* Selectors of one to six parts, with the forms the code knows by name, over
\* the loaded tables.
PartTexts == { "[1]", "[-]", "[2]", "[1,1,1]", "[1,2,_]", "[-,-,-]", "[1,1,]", "[,1,1]",
               "[1,1,1,1,1]", "[a,1,1,1,1]", "[1,1,1,1,a]", "[_,_,_,_,_]", "[1,1,1,1,1,1]",
               "[1,1]", "[2,2]", "[1,1,2,2]", "[set]", "[_]" }

PartCmds == {Txt(s) : s \in PartTexts}

InitParts == InitWith({File22, File11}, {<<",">>})

PartSelector == SelectorStep(PartCmds, MaxPartCmds)

NextParts == LoadTable \/ PartSelector \/ MainFail \/ Finish

SpecParts == InitParts /\ [][NextParts]_vars
-----------------------------------------------------------------------------
(* Properties *)

\* the commands of the list are being executed, or one of them has failed
Running == pc \in {"exec", "failed"}

Rectangular(t) ==
    \A r1, r2 \in 1..t.num_of_rows : t.rows[r1].num_of_cells = t.rows[r2].num_of_cells

\* the selection sel is the rectangle (r1, c1, r2, c2)
Rect(sel, r1, c1, r2, c2) ==
    sel.lld_ir1 = r1 /\ sel.lld_ic1 = c1 /\ sel.lld_ir2 = r2 /\ sel.lld_ic2 = c2

\* 0 <= r1 <= r2 < rows and 0 <= c1 <= c2 < cols, the column count being the
\* one the code reads, that of row 0
InTable(sel, t) ==
    /\ 0 <= sel.lld_ir1 /\ sel.lld_ir1 <= sel.lld_ir2 /\ sel.lld_ir2 < t.num_of_rows
    /\ 0 <= sel.lld_ic1 /\ sel.lld_ic1 <= sel.lld_ic2 /\ sel.lld_ic2 < NumCols(t)

\* this step is one pass of the command loop
CommandStep == pc = "exec" /\ pc' \in {"exec", "failed"}

\* this step executes the selector command with the text f
Ran(f) == CommandStep /\ c_comm' = [function |-> f, arguments |-> NULL]

\* the selector of this step succeeded and selected (r1, c1, r2, c2), leaving
\* the saved selection and the table alone
Selected(r1, c1, r2, c2) ==
    /\ pc' = "exec" /\ ret_val' = NO_ERROR
    /\ selector'.initialized /\ Rect(selector', r1, c1, r2, c2)
    /\ temp_selector' = temp_selector
    /\ table' = table

\* the selector of this step failed with the selector error and changed neither
\* selection nor the table
Rejected ==
    /\ pc' = "failed" /\ ret_val' = SELECTOR_ERROR
    /\ selector' = selector
    /\ temp_selector' = temp_selector
    /\ table' = table

----

\* C1 (as claimed): in every state between the load and the end of the command
\* list, before and after each command, all rows of the table have the same
\* number of cells.
C1_Rectangular == Running => Rectangular(table)

----

\* C2 (as claimed): when the table has loaded and every command has succeeded,
\* the run ends with the final table written to the output file, one line per
\* row, the cells joined by the delimiter.
C2_OutputWritten ==
    [][(pc = "exec" /\ pc' = "exit" /\ error_flag' = NO_ERROR)
           => outfile' = save_table(table)]_vars

----

\* C3 (as claimed): once a command has failed, no later command is executed,
\* the output file is not written, and the process exits with the error code
\* of that command.
C3_FailureExits ==
    [][pc = "failed"
           => (pc' = "exit" /\ error_flag' = ret_val /\ outfile' = NULL
               /\ c_comm' = c_comm /\ i' = i)]_vars

----

\* C4 (as claimed, for the inputs with at least one line): in every state
\* during command execution the current selection satisfies
\* 0 <= r1 <= r2 < rows and 0 <= c1 <= c2 < cols.
C4_SelectionInTable == (Running /\ infile # <<>>) => InTable(selector, table)

drow == <<"d", "r", "o", "w">>
dcol == <<"d", "c", "o", "l">>
restore == <<"[", "_", "]">>

\* C4 (amended): the selection starts as (0,0,0,0), which lies inside the table
\* when the input has at least one line; and a command other than drow, dcol
\* and [_] that finds the selection inside the table leaves it inside the table.
C4_SelectionKept ==
    [][/\ (pc = "start" /\ pc' = "exec")
              => /\ Rect(selector', 0, 0, 0, 0)
                 /\ (table'.num_of_rows > 0 => InTable(selector', table'))
       /\ (CommandStep /\ InTable(selector, table)
               /\ c_comm'.function \notin {drow, dcol, restore})
              => InTable(selector', table')]_vars

\* an area selector has selected all three rows of a table that irow or arow
\* made of the two-row input
C4_Witness ==
    /\ pc = "exec" /\ c_comm.function = Sel2(<<"_">>, <<"_">>)
    /\ table.num_of_rows = 3
    /\ Rect(selector, 0, 0, 2, 1)

----

\* the table as load_table leaves it, before shape normalization
AsLoaded == load_table(delims, infile, EmptyTable(delims)).t

\* C5: after load and shape normalization of an input with at least one line
\* every row has the same number of cells, at least one; the cells are those
\* loaded, short rows being padded with empty cells; the columns removed are
\* trailing ones that are empty in every row; and the last column holds a
\* non-empty cell unless it is column 0.
C5_LoadNormalized ==
    (pc = "exec" /\ table.num_of_rows >= 1) =>
        /\ Rectangular(table)
        /\ NumCols(table) >= 1
        /\ table.num_of_rows = AsLoaded.num_of_rows
        /\ \A r \in 1..table.num_of_rows :
              /\ \A k \in 0..(NumCols(table) - 1) :
                    Content(table, r, k) = IF k < AsLoaded.rows[r].num_of_cells
                                           THEN Content(AsLoaded, r, k) ELSE EMPTY_CELL
              /\ \A k \in NumCols(table)..(AsLoaded.rows[r].num_of_cells - 1) :
                    Content(AsLoaded, r, k) = EMPTY_CELL
        /\ \/ NumCols(table) = 1
           \/ \E r \in 1..table.num_of_rows : Content(table, r, NumCols(table) - 1) # EMPTY_CELL

\* a three-cell row and a one-cell row were loaded: the short row was padded
\* and two empty trailing columns were removed
C5_Witness ==
    /\ pc = "exec" /\ table.num_of_rows = 2 /\ NumCols(table) = 1
    /\ AsLoaded.rows[1].num_of_cells = 3 /\ AsLoaded.rows[2].num_of_cells = 1

----

\* the lines of a file: the texts that its newlines end
RECURSIVE FileLines(_)
FileLines(file) ==
    IF file = <<>> THEN <<>>
    ELSE <<SubSeq(file, 1, LineEnd(file, 1) - 1)>>
             \o FileLines(Tail_from(file, LineEnd(file, 1) + 1))

\* a line less its trailing carriage return
StripCR(line) ==
    IF line # <<>> /\ line[Len(line)] = "\r" THEN SubSeq(line, 1, Len(line) - 1) ELSE line

\* the file with the trailing carriage return of every line stripped and every
\* line ended by a newline
RECURSIVE Joined(_)
Joined(ls) == IF ls = <<>> THEN <<>> ELSE StripCR(Head(ls)) \o <<"\n">> \o Joined(Tail(ls))
Canonical(file) == Joined(FileLines(file))

\* an input that shape normalization has nothing to do on: no secondary
\* delimiter, no carriage return but trailing ones, the same number of
\* separators in every line, and a last column that is not empty
Normal(file, dl) ==
    /\ \A k \in 1..Len(file) : \A d \in 2..Len(dl) : file[k] # dl[d]
    /\ \A k \in 1..Len(file) : BLACKLISTED_DELIMS[1] # file[k]
                               /\ BLACKLISTED_DELIMS[2] # file[k]
                               /\ BLACKLISTED_DELIMS[3] # file[k]
    /\ With(FileLines(file), LAMBDA ls :
          /\ \A n \in 1..Len(ls) : \A k \in 1..Len(StripCR(ls[n])) : StripCR(ls[n])[k] # "\r"
          /\ \A n, m \in 1..Len(ls) :
                count_char(StripCR(ls[n]), dl[1], FALSE) = count_char(StripCR(ls[m]), dl[1], FALSE)
          /\ \/ \A n \in 1..Len(ls) : count_char(StripCR(ls[n]), dl[1], FALSE) = 0
             \/ \E n \in 1..Len(ls) : /\ StripCR(ls[n]) # <<>>
                                      /\ StripCR(ls[n])[Len(StripCR(ls[n]))] # dl[1])

\* C6 (as claimed, for the inputs that shape normalization leaves alone):
\* loading the input and saving it with an empty command list reproduces the
\* input byte for byte, apart from stripping a trailing carriage return and
\* ending every line with a newline.
C6_RoundTrip == (pc = "exit" /\ Normal(infile, delims)) => outfile = Canonical(infile)

----

\* the selector texts with one-character parts, and their parts
Two(f) == Len(f) = 5 /\ f[1] = "[" /\ f[3] = "," /\ f[5] = "]"
Four(f) ==
    Len(f) = 9 /\ f[1] = "[" /\ f[3] = "," /\ f[5] = "," /\ f[7] = "," /\ f[9] = "]"

IsNumber(p) == p \in {"0", "1", "2", "3", "4", "5", "6", "7", "8", "9"}
Value(p) == CHOOSE n \in 0..9 : DigitChar(n) = p

\* the part p is a number from 1 to last
Within(p, last) == IsNumber(p) /\ 1 <= Value(p) /\ Value(p) <= last
\* the 0-based index the part p stands for, "-" being the last one
Index(p, last) == IF p = "-" THEN last - 1 ELSE Value(p) - 1

\* what C7 lists for the selector text f on a table of the given size
TwoPartEffect(f, rows, cols) ==
    /\ (Two(f) /\ Within(f[2], rows) /\ Within(f[4], cols))
           => Selected(Value(f[2]) - 1, Value(f[4]) - 1, Value(f[2]) - 1, Value(f[4]) - 1)
    /\ (Two(f) /\ Within(f[2], rows) /\ f[4] = "_")
           => Selected(Value(f[2]) - 1, 0, Value(f[2]) - 1, cols - 1)
    /\ (Two(f) /\ Within(f[2], rows) /\ f[4] = "-")
           => Selected(Value(f[2]) - 1, cols - 1, Value(f[2]) - 1, cols - 1)
    /\ (Two(f) /\ f[2] = "_" /\ Within(f[4], cols))
           => Selected(0, Value(f[4]) - 1, rows - 1, Value(f[4]) - 1)
    /\ (Two(f) /\ f[2] = "-" /\ Within(f[4], cols))
           => Selected(rows - 1, Value(f[4]) - 1, rows - 1, Value(f[4]) - 1)
    /\ f = Sel2(<<"_">>, <<"_">>) => Selected(0, 0, rows - 1, cols - 1)
    /\ f = Sel2(<<"-">>, <<"-">>) => Selected(rows - 1, cols - 1, rows - 1, cols - 1)
    /\ f = Sel4(<<"-">>, <<"-">>, <<"-">>, <<"-">>)
           => Selected(rows - 1, cols - 1, rows - 1, cols - 1)
    /\ f = Sel2(<<"_">>, <<"-">>) => Selected(0, cols - 1, rows - 1, cols - 1)
    /\ f = Sel2(<<"-">>, <<"_">>) => Selected(rows - 1, 0, rows - 1, cols - 1)

\* C7: each two-part or keyword selector with numeric parts in 1..rows and
\* 1..cols sets the current selection to the rectangle listed for it and leaves
\* the saved selection and the table unchanged.
C7_TwoPartSelectors ==
    [][\A f \in {c_comm'.function} :
          Ran(f) => TwoPartEffect(f, table.num_of_rows, NumCols(table))]_vars

\* [3,_] has selected the third row, all columns, of a table of three rows
C7_Witness ==
    /\ pc = "exec" /\ c_comm.function = Sel2(<<"3">>, <<"_">>)
    /\ table.num_of_rows = 3 /\ NumCols(table) = 2
    /\ Rect(selector, 2, 0, 2, 1)

----

\* every part of the four-part selector f is a number in range or "-"
InRangeOrLast(f, rows, cols) ==
    /\ f[2] = "-" \/ Within(f[2], rows)
    /\ f[4] = "-" \/ Within(f[4], cols)
    /\ f[6] = "-" \/ Within(f[6], rows)
    /\ f[8] = "-" \/ Within(f[8], cols)

\* the corners of f, "-" standing for the last row or column, are in order
Ordered(f, rows, cols) ==
    /\ Index(f[2], rows) <= Index(f[6], rows)
    /\ Index(f[4], cols) <= Index(f[8], cols)

SelectedCorners(f, rows, cols) ==
    Selected(Index(f[2], rows), Index(f[4], cols), Index(f[6], rows), Index(f[8], cols))

HasUnderscore(f) == f[2] = "_" \/ f[4] = "_" \/ f[6] = "_" \/ f[8] = "_"

\* "-" opens a range that a number closes
LastBeforeNumber(f) ==
    (f[2] = "-" /\ IsNumber(f[6])) \/ (f[4] = "-" /\ IsNumber(f[8]))

\* C8 (as claimed): a four-part selector whose parts are numbers in range or
\* "-", and whose corners are in order once "-" is resolved, is accepted and
\* selects exactly that rectangle; one containing "_" is rejected.
C8_FourPartAccepted ==
    [][\A f \in {c_comm'.function} :
          (Ran(f) /\ Four(f)) =>
              /\ HasUnderscore(f) => Rejected
              /\ (InRangeOrLast(f, table.num_of_rows, NumCols(table))
                      /\ Ordered(f, table.num_of_rows, NumCols(table)))
                     => SelectedCorners(f, table.num_of_rows, NumCols(table))]_vars

\* C8 (amended): such a selector is accepted, and selects exactly that
\* rectangle, if moreover R2 is "-" whenever R1 is and C2 is "-" whenever C1 is;
\* one with "-" for R1 and a number for R2, or "-" for C1 and a number for C2, is
\* rejected with the selector error, and so is one containing "_".
C8_FourPartSelectors ==
    [][\A f \in {c_comm'.function} :
          (Ran(f) /\ Four(f)) =>
              /\ HasUnderscore(f) => Rejected
              /\ LastBeforeNumber(f) => Rejected
              /\ (InRangeOrLast(f, table.num_of_rows, NumCols(table))
                      /\ Ordered(f, table.num_of_rows, NumCols(table))
                      /\ ~LastBeforeNumber(f))
                     => SelectedCorners(f, table.num_of_rows, NumCols(table))]_vars

\* [2,1,-,-] has selected rows 2..3, columns 1..2 of a table of three rows
C8_Witness ==
    /\ pc = "exec" /\ c_comm.function = Sel4(<<"2">>, <<"1">>, <<"-">>, <<"-">>)
    /\ table.num_of_rows = 3 /\ NumCols(table) = 2
    /\ Rect(selector, 1, 0, 2, 1)

----

\* a numeric part of the coordinate selector f lies outside the table
OutOfRange(f, rows, cols) ==
    \/ Two(f) /\ \/ IsNumber(f[2]) /\ ~Within(f[2], rows)
                 \/ IsNumber(f[4]) /\ ~Within(f[4], cols)
    \/ Four(f) /\ \/ IsNumber(f[2]) /\ ~Within(f[2], rows)
                  \/ IsNumber(f[4]) /\ ~Within(f[4], cols)
                  \/ IsNumber(f[6]) /\ ~Within(f[6], rows)
                  \/ IsNumber(f[8]) /\ ~Within(f[8], cols)

\* R1 > R2 or C1 > C2
Reversed(f) ==
    Four(f) /\ \/ IsNumber(f[2]) /\ IsNumber(f[6]) /\ Value(f[2]) > Value(f[6])
               \/ IsNumber(f[4]) /\ IsNumber(f[8]) /\ Value(f[4]) > Value(f[8])

----

save == <<"[", "s", "e", "t", "]">>

\* C10: the saved selection starts as (0,0,0,0) and only [set] changes it;
\* [set] copies the current selection into it and leaves the current selection
\* as it is; [_] makes the current selection equal to the saved one, and leaves
\* the saved one as it is.
C10_SavedSelection ==
    [][/\ (pc = "start" /\ pc' = "exec")
              => (temp_selector'.initialized /\ Rect(temp_selector', 0, 0, 0, 0))
       /\ (pc # "start" /\ ~Ran(save)) => temp_selector' = temp_selector
       /\ Ran(save) => /\ pc' = "exec"
                       /\ temp_selector' = selector
                       /\ selector' = selector
       /\ Ran(restore) => /\ pc' = "exec"
                          /\ selector' = temp_selector
                          /\ temp_selector' = temp_selector]_vars

\* [_] has brought back the selection (1,1,1,1) that [set] saved
C10_Witness ==
    /\ pc = "exec" /\ c_comm.function = restore /\ i = 3
    /\ Rect(temp_selector, 1, 1, 1, 1)
    /\ selector = temp_selector


----

\* this step is a pass of the command loop that took up the selector text f,
\* however the pass ended
Tried(f) ==
    /\ pc = "exec" /\ temp_var_store' = temp_var_store
    /\ c_comm' = [function |-> f, arguments |-> NULL]

\* the cells <<i, j>> (0-based) of the selection sel that lie inside the table
SelectedCells(t, sel) ==
    {a \in (sel.lld_ir1..sel.lld_ir2) \X (sel.lld_ic1..sel.lld_ic2) :
        /\ 0 <= a[1] /\ a[1] < t.num_of_rows
        /\ 0 <= a[2] /\ a[2] < t.rows[a[1] + 1].num_of_cells}

\* a comes no later than b in row-major order
RowMajor(a, b) == a[1] < b[1] \/ (a[1] = b[1] /\ a[2] <= b[2])

\* the text s starts with the text p
StartsWith(s, p) == Len(p) <= Len(s) /\ SubSeq(s, 1, Len(p)) = p

\* the selector text f is [find STR]; its STR
IsFind(f) == Len(f) >= 7 /\ SubSeq(f, 1, 6) = <<"[", "f", "i", "n", "d", " ">> /\ f[Len(f)] = "]"
FindArg(f) == SubSeq(f, 7, Len(f) - 1)

\* the selector of this step returned no error, the next command is taken up,
\* and the selection is the single cell first of the cells S in row-major
\* order, or is unchanged when S is empty; the saved selection and the table
\* are unchanged
CollapsedTo(S) ==
    /\ pc' = "exec" /\ ret_val' = NO_ERROR /\ i' = i + 1
    /\ table' = table /\ temp_selector' = temp_selector
    /\ IF S = {} THEN selector' = selector
       ELSE \E m \in S : /\ \A n \in S : RowMajor(m, n)
                         /\ selector' = Single(selector, m[1], m[2])

----

\* the number a cell holds: its content, less one pair of enclosing quotes,
\* read as a floating-point number
NumberAt(t, a) == string_to_ldouble(testing_string(ContentAt(t, a))).val

\* the numeric cells of the selection: those whose content, less one pair of
\* enclosing quotes, is read as a number to its end (the empty content is read
\* as 0); a NaN is no numeric value
NumericCells(t, sel) ==
    {a \in SelectedCells(t, sel) :
        is_string_ldouble(testing_string(ContentAt(t, a))) /\ ~NumberAt(t, a).nan}

\* the numeric cells of the selection that hold the smallest number (the
\* largest if want_max)
ExtremeCells(t, sel, want_max) ==
    {m \in NumericCells(t, sel) :
        \A n \in NumericCells(t, sel) :
            IF want_max THEN ~LdLess(NumberAt(t, m), NumberAt(t, n))
            ELSE ~LdLess(NumberAt(t, n), NumberAt(t, m))}

\* C12 (as claimed): [min] (resp. [max]) makes the selection the single cell
\* that holds the smallest (resp. largest) number among the numeric cells of
\* the selection, the first in row-major order among equals; without a numeric
\* cell the selection is unchanged; the run continues without error.
C12_MinMax ==
    [][/\ Tried(Txt("[min]")) => CollapsedTo(ExtremeCells(table, selector, FALSE))
       /\ Tried(Txt("[max]")) => CollapsedTo(ExtremeCells(table, selector, TRUE))]_vars

----

\* this step is a pass of the command loop that took up the command fn
\* without arguments, however the pass ended
TriedCommand(fn) == Tried(Txt(fn))

\* the cells of rows[r] can be read
RowReadable(t, r) == t.rows[r].num_of_cells = 0 \/ ~RowDangling(t, r)
Readable(t) == \A r \in 1..t.num_of_rows : RowReadable(t, r)

\* the table as its rows of cell contents
RowText(t, r) == [k \in 1..t.rows[r].num_of_cells |-> t.heap[t.rows[r].cells][k]]
Texts(t) == [r \in 1..t.num_of_rows |-> RowText(t, r)]

\* a row of n empty cells
EmptyRow(n) == [k \in 1..n |-> EMPTY_CELL]

\* the sequence s with x put at the 0-based index k, and s without its
\* elements of the 0-based indices a..b
InsertedAt(s, k, x) == SubSeq(s, 1, k) \o <<x>> \o SubSeq(s, k + 1, Len(s))
Without(s, a, b) == SubSeq(s, 1, a) \o SubSeq(s, b + 2, Len(s))

\* the command of this step returned no error and left the table with the
\* rows rows
TableBecomes(rows) ==
    /\ pc' = "exec" /\ ret_val' = NO_ERROR
    /\ Readable(table') /\ Texts(table') = rows

\* C13 (as claimed): with r1 inside the table, irow adds one row: at index r1
\* stands a row of as many cells as the table has columns, all empty, and the
\* rows that were there keep their content, those from r1 on one place further
\* down.
C13_InsertRow ==
    [][(/\ TriedCommand("irow") /\ Readable(table)
        /\ 0 <= selector.lld_ir1 /\ selector.lld_ir1 < table.num_of_rows)
           => TableBecomes(InsertedAt(Texts(table), selector.lld_ir1,
                                      EmptyRow(NumCols(table))))]_vars

----

\* C14 (as claimed): in every state, also after earlier drow commands, arow adds
\* exactly one row: after the last row when r2 is the last row or beyond it, at
\* index r2 + 1 otherwise; the new row has as many cells as the table has
\* columns, all empty, and the rows that were there keep content and order.
C14_AppendRow ==
    [][(TriedCommand("arow") /\ Readable(table) /\ table.num_of_rows > 0)
           => TableBecomes(InsertedAt(Texts(table),
                                      IF selector.lld_ir2 >= table.num_of_rows - 1
                                      THEN table.num_of_rows ELSE selector.lld_ir2 + 1,
                                      EmptyRow(NumCols(table))))]_vars

----

\* C15 (as claimed): drow removes exactly the rows r1..min(r2, rows-1); the rows
\* before r1 and the rows after r2 remain, in their order and with their
\* content; with r1 beyond the last row nothing is deleted.
C15_DeleteRows ==
    [][(TriedCommand("drow") /\ Readable(table))
           => TableBecomes(IF selector.lld_ir1 >= table.num_of_rows THEN Texts(table)
                           ELSE Without(Texts(table), selector.lld_ir1,
                                        Min(selector.lld_ir2, table.num_of_rows - 1)))]_vars

----

\* the command of this step returned no error and put one empty cell into
\* every row, at the 0-based index k, or at the end of the row if at_end; the
\* cells that were there keep their content and order
ColumnInserted(k, at_end) ==
    /\ pc' = "exec" /\ ret_val' = NO_ERROR
    /\ Readable(table') /\ table'.num_of_rows = table.num_of_rows
    /\ \A r \in 1..table.num_of_rows :
          /\ at_end \/ (0 <= k /\ k <= table.rows[r].num_of_cells)
          /\ RowText(table', r)
                 = InsertedAt(RowText(table, r),
                              IF at_end THEN table.rows[r].num_of_cells ELSE k, EMPTY_CELL)

\* C16 (as claimed): icol puts one empty cell at column index c1 into every
\* row, acol one empty cell at column index c2 + 1 (at the end when c2 is the
\* last column); the cells that were there keep content and order, and the
\* column count grows by one.
C16_InsertColumn ==
    [][/\ (TriedCommand("icol") /\ Readable(table) /\ table.num_of_rows > 0)
             => ColumnInserted(selector.lld_ic1, FALSE)
       /\ (TriedCommand("acol") /\ Readable(table) /\ table.num_of_rows > 0)
             => ColumnInserted(selector.lld_ic2 + 1,
                               selector.lld_ic2 >= NumCols(table) - 1)]_vars

----

\* C17 (as claimed): dcol removes from every row exactly the cells of the
\* columns c1..min(c2, cols-1); in every row the cells left of c1 and the cells
\* right of c2 remain, in their order and with their content.
C17_DeleteColumns ==
    [][(TriedCommand("dcol") /\ Readable(table) /\ table.num_of_rows > 0)
           => /\ pc' = "exec" /\ ret_val' = NO_ERROR
              /\ Readable(table') /\ table'.num_of_rows = table.num_of_rows
              /\ \A r \in 1..table.num_of_rows :
                    RowText(table', r)
                        = IF selector.lld_ic1 >= table.rows[r].num_of_cells
                          THEN RowText(table, r)
                          ELSE Without(RowText(table, r), selector.lld_ic1,
                                       Min(selector.lld_ic2,
                                           table.rows[r].num_of_cells - 1))]_vars

----

\* this step is the pass of the command loop for the command c
PassOf(c) == pc = "exec" /\ temp_var_store' # NoTempVars /\ c_comm' = c
RanCommand(fn, arg) == PassOf([function |-> Txt(fn), arguments |-> arg])

\* the rows of texts in which the cells of the set S (0-based <<i, j>>) hold
\* string and every other cell what it holds in t
TextsWith(t, S, string) ==
    [r \in 1..t.num_of_rows |->
        [k \in 1..t.rows[r].num_of_cells |->
            IF <<r - 1, k - 1>> \in S THEN string ELSE RowText(t, r)[k]]]

\* the command of this step returned no error, wrote string into the cells of
\* the selection that lie inside the table, and changed nothing else
WrittenToSelection(string) ==
    /\ pc' = "exec" /\ ret_val' = NO_ERROR
    /\ Readable(table')
    /\ Texts(table') = TextsWith(table, SelectedCells(table, selector), string)
    /\ selector' = selector /\ temp_selector' = temp_selector
    /\ temp_var_store' = temp_var_store

SetArguments == {Txt("x"), Txt("'a b'"), Txt("7")}

\* C18 (as claimed): set STR writes STR as it stands in the argument into every
\* cell of the selection that lies inside the table, clear writes the empty
\* string into these cells; the cells outside the selection, the numbers of
\* rows and columns, both selections and the temporary variables stay as they
\* are.
C18_SetClear ==
    [][/\ \A string \in SetArguments :
             (RanCommand("set", string) /\ Readable(table)) => WrittenToSelection(string)
       /\ (RanCommand("clear", NULL) /\ Readable(table)) => WrittenToSelection(EMPTY_CELL)]_vars

----

\* the cells of the set S in row-major order
RECURSIVE InRowMajor(_)
InRowMajor(S) ==
    IF S = {} THEN <<>>
    ELSE LET first == CHOOSE a \in S : \A b \in S : a = b \/ RowMajor(a, b)
         IN <<first>> \o InRowMajor(S \ {first})

\* the rows of texts with the contents of the cells a and b exchanged
Exchange(texts, a, b) ==
    [texts EXCEPT ![a[1] + 1][a[2] + 1] = texts[b[1] + 1][b[2] + 1],
                  ![b[1] + 1][b[2] + 1] = texts[a[1] + 1][a[2] + 1]]

\* the rows of texts after each cell of the sequence cells, the target left
\* out, has exchanged its content with the one the target then holds
RECURSIVE ExchangedIn(_, _, _)
ExchangedIn(texts, cells, target) ==
    IF cells = <<>> THEN texts
    ELSE IF Head(cells) = target THEN ExchangedIn(texts, Tail(cells), target)
    ELSE ExchangedIn(Exchange(texts, Head(cells), target), Tail(cells), target)

\* the cell <<r, c>> (0-based) lies inside the table
CellInTable(t, r, c) ==
    /\ 0 <= r /\ r < t.num_of_rows
    /\ 0 <= c /\ c < NumCols(t) /\ c < t.rows[r + 1].num_of_cells

\* the arguments [R,C] of the checked commands with the cell they name
CellArguments ==
    { [text |-> Txt("[1,1]"), r |-> 0, c |-> 0], [text |-> Txt("[1,2]"), r |-> 0, c |-> 1],
      [text |-> Txt("[2,2]"), r |-> 1, c |-> 1] }

\* C19 (as claimed): swap [R,C] goes through the cells of the selection in
\* row-major order, leaves out the target (R-1,C-1), and exchanges the content
\* of each cell with the content the target holds at that moment; when the
\* selection is one cell other than the target, the two contents are exchanged
\* and nothing else changes, and the same swap run once more gives the table
\* back.
C19_Swap ==
    [][\A g \in CellArguments :
          (RanCommand("swap", g.text) /\ Readable(table) /\ CellInTable(table, g.r, g.c))
             => /\ pc' = "exec" /\ ret_val' = NO_ERROR
                /\ Readable(table')
                /\ Texts(table')
                      = ExchangedIn(Texts(table),
                                    InRowMajor(SelectedCells(table, selector)),
                                    <<g.r, g.c>>)
                /\ \A a \in SelectedCells(table, selector) :
                      (SelectedCells(table, selector) = {a} /\ a # <<g.r, g.c>>)
                         => /\ Texts(table') = Exchange(Texts(table), a, <<g.r, g.c>>)
                            /\ Texts(swap_cells(table', selector, g.r, g.c).t)
                                  = Texts(table)]_vars

----

\* the text of the cell a = <<i, j>> of t
TextAt(t, a) == RowText(t, a[1] + 1)[a[2] + 1]

\* the sum of the values of the cells of the sequence cells, all numeric
RECURSIVE SumOf(_, _)
SumOf(t, cells) ==
    IF cells = <<>> THEN Num(0, 1)
    ELSE LdAdd(string_to_ldouble(TextAt(t, Head(cells))).val, SumOf(t, Tail(cells)))

\* x and y are the same value: both not a number, or the same number
SameNumber(x, y) ==
    IF x.nan \/ y.nan THEN x.nan /\ y.nan ELSE x.num * y.den = y.num * x.den

\* the text string is what sum has to write for the selection sel of t
IsSumText(t, sel, string) ==
    IF \A a \in SelectedCells(t, sel) : is_string_ldouble(TextAt(t, a))
    THEN /\ is_string_ldouble(string)
         /\ SameNumber(string_to_ldouble(string).val,
                       SumOf(t, InRowMajor(SelectedCells(t, sel))))
    ELSE string = Txt("NaN")

\* C20 (as claimed): sum [R,C] writes into the cell (R-1,C-1) the sum of the
\* values of the cells of the selection when all of them are numeric, and the
\* text NaN when a cell of the selection is not numeric; no other cell changes.
C20_Sum ==
    [][\A g \in CellArguments :
          (RanCommand("sum", g.text) /\ Readable(table) /\ CellInTable(table, g.r, g.c))
             => /\ pc' = "exec" /\ ret_val' = NO_ERROR
                /\ Readable(table')
                /\ Texts(table') = TextsWith(table, {<<g.r, g.c>>},
                                             TextAt(table', <<g.r, g.c>>))
                /\ IsSumText(table, selector, TextAt(table', <<g.r, g.c>>))]_vars

----

\* the text s is an integer in plain decimal digits, with a minus sign if it
\* is negative: no decimal point, no exponent
PlainInteger(s) ==
    /\ s # NULL /\ s # <<>>
    /\ With(IF s[1] = "-" THEN Tail(s) ELSE s, LAMBDA digits :
          digits # <<>> /\ \A k \in 1..Len(digits) : IsDigit(digits[k]))

\* the value x is an integer
IsInteger(x) == ~x.nan /\ x.den # 0 /\ x.num % x.den = 0

\* this step is the pass of the command loop for the command c, and the
\* command returned no error
Done(c) == PassOf(c) /\ pc' = "exec" /\ ret_val' = NO_ERROR
DoneCommand(fn, arg) == Done([function |-> Txt(fn), arguments |-> arg])

\* the slots _N of the checked commands
SlotArguments ==
    { [text |-> Txt("_0"), index |-> 0], [text |-> Txt("_1"), index |-> 1],
      [text |-> Txt("_9"), index |-> 9] }

\* the text of slot is NULL, not a number, or a number whose successor is an
\* integer
IncreasesToInteger(slot) ==
    \/ slot = NULL
    \/ ~is_string_ldouble(slot)
    \/ IsInteger(LdAdd(string_to_ldouble(slot).val, Num(1, 1)))

\* C21 (as claimed): every integer that sum, count, len or inc writes stands
\* there in plain decimal digits, without a decimal point and without an
\* exponent.
C21_IntegersPlain ==
    [][/\ \A g \in CellArguments :
             /\ (/\ DoneCommand("sum", g.text) /\ Readable(table) /\ Readable(table')
                 /\ CellInTable(table, g.r, g.c)
                 /\ \A a \in SelectedCells(table, selector) :
                       is_string_ldouble(TextAt(table, a))
                 /\ IsInteger(SumOf(table, InRowMajor(SelectedCells(table, selector)))))
                   => PlainInteger(TextAt(table', <<g.r, g.c>>))
             /\ (/\ DoneCommand("count", g.text) \/ DoneCommand("len", g.text)
                 /\ Readable(table) /\ Readable(table')
                 /\ CellInTable(table, g.r, g.c))
                   => PlainInteger(TextAt(table', <<g.r, g.c>>))
       /\ \A v \in SlotArguments :
             (DoneCommand("inc", v.text) /\ IncreasesToInteger(temp_var_store[v.index + 1]))
                => PlainInteger(temp_var_store'[v.index + 1])]_vars

----

\* the command of this step returned no error and wrote string into the cell
\* <<r, c>>; every other cell holds what it held
WrittenToCell(r, c, string) ==
    /\ pc' = "exec" /\ ret_val' = NO_ERROR
    /\ Readable(table')
    /\ Texts(table') = TextsWith(table, {<<r, c>>}, string)

\* C22 (as claimed): len [R,C] writes into the cell (R-1,C-1) the length, in
\* decimal digits, of the content of the cell (r2,c2) of the selection, and
\* changes no other cell.
C22_Len ==
    [][\A g \in CellArguments :
          (/\ RanCommand("len", g.text) /\ Readable(table)
           /\ CellInTable(table, g.r, g.c)
           /\ CellInTable(table, selector.lld_ir2, selector.lld_ic2))
             => WrittenToCell(g.r, g.c,
                    NatToString(Len(TextAt(table, <<selector.lld_ir2, selector.lld_ic2>>))))]_vars

----

\* the selection sel is one cell
SingleCell(sel) == sel.lld_ir1 = sel.lld_ir2 /\ sel.lld_ic1 = sel.lld_ic2

\* the command of this step failed with the error code ret and changed
\* neither the table nor the selections nor the temporary variables
FailedWith(ret) ==
    /\ pc' = "failed" /\ ret_val' = ret
    /\ UNCHANGED <<table, selector, temp_selector, temp_var_store>>

\* the run of a failed command ends with the code of its error
ExitsWithError == (pc = "failed" /\ pc' # "failed") => (pc' = "exit" /\ error_flag' = ret_val)

\* C23 (as claimed): def _N under a selection of one cell copies the content of
\* the cell (r1,c1) into slot N and leaves the table, both selections and the
\* other slots as they are; under a selection of several cells it fails with
\* the command error, changes nothing, and the exit code is 8.
C23_Def ==
    [][\A v \in SlotArguments :
          /\ (/\ RanCommand("def", v.text) /\ Readable(table) /\ SingleCell(selector)
              /\ CellInTable(table, selector.lld_ir1, selector.lld_ic1))
                => /\ pc' = "exec" /\ ret_val' = NO_ERROR
                   /\ temp_var_store'
                         = [temp_var_store EXCEPT
                               ![v.index + 1] = TextAt(table, <<selector.lld_ir1,
                                                                selector.lld_ic1>>)]
                   /\ UNCHANGED <<table, selector, temp_selector>>
          /\ (RanCommand("def", v.text) /\ Readable(table) /\ ~SingleCell(selector))
                => FailedWith(COMMAND_ERROR)
          /\ (/\ c_comm = [function |-> Txt("def"), arguments |-> v.text]
              /\ ret_val = COMMAND_ERROR)
                => ExitsWithError]_vars

----

\* C24 (as claimed): use _N writes the value of slot N into every cell of the
\* selection that lies inside the table and leaves the slot as it is; when
\* slot N was never set, use _N changes nothing and returns no error.
C24_Use ==
    [][\A v \in SlotArguments :
          (RanCommand("use", v.text) /\ Readable(table))
             => IF temp_var_store[v.index + 1] # NULL
                THEN WrittenToSelection(temp_var_store[v.index + 1])
                ELSE /\ pc' = "exec" /\ ret_val' = NO_ERROR
                     /\ UNCHANGED <<table, selector, temp_selector, temp_var_store>>]_vars

----

\* what def _N leaves behind under a selection of one cell: if the cell lies
\* inside the table, slot N (0-based index) holds its content
SlotHoldsCell(index) ==
    /\ SingleCell(selector)
    /\ CellInTable(table, selector.lld_ir1, selector.lld_ic1)
          => temp_var_store[index + 1] = TextAt(table, <<selector.lld_ir1, selector.lld_ic1>>)

\* C25 (as claimed): under a selection of one cell, def _N followed by use _N
\* gives back the table as it was before def _N, whatever commands run in
\* between, as long as they leave the table and slot N alone and the
\* selection is in the end the one def _N saw. The table, the selection and
\* slot N are then at use _N what def _N left, so that the claim is: def _N
\* leaves slot N holding the selected cell, and use _N in such a state leaves
\* every cell as it is.
C25_DefUse ==
    [][\A v \in SlotArguments :
          /\ (DoneCommand("def", v.text) /\ Readable(table) /\ SingleCell(selector))
                => /\ SlotHoldsCell(v.index)'
                   /\ Texts(table') = Texts(table) /\ selector' = selector
          /\ (RanCommand("use", v.text) /\ Readable(table) /\ SlotHoldsCell(v.index))
                => /\ pc' = "exec" /\ ret_val' = NO_ERROR
                   /\ Readable(table') /\ Texts(table') = Texts(table)]_vars

\* the content "a" of the cell (0,1) went into slot 0 with def, and use _0 has
\* written it back
C25_Witness ==
    /\ pc = "exec" /\ i = 3 /\ infile = File22
    /\ c_comm = [function |-> Txt("use"), arguments |-> Txt("_0")]
    /\ Rect(selector, 0, 1, 0, 1)
    /\ temp_var_store[1] = Txt("a")
    /\ Texts(table) = << <<Txt("1"), Txt("a")>>, <<Txt("2"), <<>>>> >>

----

\* the slots other than slot index are in this step left as they are
OtherSlotsKept(index) ==
    \A k \in 1..NUMBER_OF_TEMPORARY_VARIABLES :
        k # index + 1 => temp_var_store'[k] = temp_var_store[k]

\* the text new is the number of the text old plus one
IsSuccessor(old, new) ==
    /\ is_string_ldouble(new)
    /\ SameNumber(string_to_ldouble(new).val,
                  LdAdd(string_to_ldouble(old).val, Num(1, 1)))
    /\ LdLess(string_to_ldouble(old).val, string_to_ldouble(new).val)

\* C26 (as claimed): inc _N makes slot N the text 1 when the slot is empty or
\* holds a text that is no number; when it holds a number, slot N becomes the
\* text of that number plus one, a greater number. The new slot is a function
\* of the old one, and the table, the selections and the other slots stay as
\* they are.
C26_Inc ==
    [][\A v \in SlotArguments :
          (RanCommand("inc", v.text) /\ Readable(table))
             => /\ pc' = "exec" /\ ret_val' = NO_ERROR
                /\ UNCHANGED <<table, selector, temp_selector>>
                /\ OtherSlotsKept(v.index)
                /\ With(temp_var_store[v.index + 1], LAMBDA old :
                      IF old = NULL \/ ~is_string_ldouble(old)
                      THEN temp_var_store'[v.index + 1] = Txt("1")
                      ELSE IsSuccessor(old, temp_var_store'[v.index + 1]))]_vars

----

\* commands of SpecVar whose argument, its first character removed, is no
\* decimal integer in 0..9: 10, -1, x, the empty text, 1x
BadSlotCommands ==
    { [function |-> Txt("def"), arguments |-> Txt("_10")],
      [function |-> Txt("use"), arguments |-> Txt("_-1")],
      [function |-> Txt("inc"), arguments |-> Txt("_x")],
      [function |-> Txt("def"), arguments |-> Txt("_")],
      [function |-> Txt("inc"), arguments |-> Txt("_1x")] }

\* C27 (as claimed): def, use and inc with an argument that, its first
\* character removed, is no decimal integer in 0..9 fail with the command
\* error and change no slot, no cell and no selection; the exit code is 8.
C27_BadSlotArgument ==
    [][\A c \in BadSlotCommands :
          /\ (PassOf(c) /\ Readable(table)) => FailedWith(COMMAND_ERROR)
          /\ (c_comm = c /\ pc = "failed") => ExitsWithError]_vars

-----------------------------------------------------------------------------
(* Splitting and tokenizing of the command string *)

\* the pieces of string between the occurrences of ";", in their order
RECURSIVE PiecesOf(_)
PiecesOf(string) ==
    IF \E p \in 1..Len(string) : string[p] = ";"
    THEN With(CHOOSE p \in 1..Len(string) :
                 string[p] = ";" /\ \A q \in 1..(p - 1) : string[q] # ";", LAMBDA p :
            <<SubSeq(string, 1, p - 1)>> \o PiecesOf(SubSeq(string, p + 1, Len(string))))
    ELSE <<string>>

\* the positions of the spaces of piece outside a pair of apostrophes
UnquotedSpaces(piece) ==
    {p \in 1..Len(piece) :
        /\ piece[p] = " "
        /\ Cardinality({q \in 1..(p - 1) : piece[q] = "'"}) % 2 = 0}

\* an absent part of a command is a null pointer or an empty string
PartIs(part, string) == part = string \/ (string = <<>> /\ part = NULL)

TokenOf(piece, command) ==
    IF piece # <<>> /\ piece[1] = "[" /\ piece[Len(piece)] = "]"
    THEN command.function = piece /\ command.arguments = NULL
    ELSE IF UnquotedSpaces(piece) = {}
    THEN PartIs(command.function, piece) /\ command.arguments = NULL
    ELSE With(CHOOSE p \in UnquotedSpaces(piece) : \A q \in UnquotedSpaces(piece) : p <= q,
              LAMBDA p :
            /\ PartIs(command.function, SubSeq(piece, 1, p - 1))
            /\ PartIs(command.arguments, SubSeq(piece, p + 1, Len(piece))))

Tokenized(string, commands) ==
    With(IF string = <<>> THEN <<>> ELSE PiecesOf(string), LAMBDA pieces :
        /\ Len(commands) = Len(pieces)
        /\ \A k \in 1..Len(pieces) : TokenOf(pieces[k], commands[k]))

\* C28: once the command string has been taken up, the run has gone on to
\* the loading of the table with one command for every piece between two
\* ";", in the order of the pieces, none for the empty string; a piece that
\* begins with "[" and ends with "]" is a function without argument, any
\* other piece is cut at its first unquoted space
C28_SplitTokenize ==
    (raw_commands # NULL /\ pc # "args")
        => (pc = "start" /\ Tokenized(raw_commands, base_commands_store))

-----------------------------------------------------------------------------
(* Refused allocations *)

\* C29: when malloc or realloc refuses a request while main loads the
\* table and normalizes its shape, the run ends with the exit code 4, no
\* command has been taken up and no output has been written
C29_AllocationAborts ==
    [][(pc = "start" /\ table'.refused)
          => /\ pc' = "exit" /\ error_flag' = ALLOCATION_FAILED
             /\ c_comm' = NoCommand /\ outfile' = NULL]_vars

-----------------------------------------------------------------------------
(* The selections under the row and column commands *)

\* C30: a pass of the loop that takes up irow, arow, drow, icol, acol or
\* dcol and ends, with or without an error, leaves the four coordinates of
\* the current and of the saved selection as they were, also when they then
\* point outside the table
C30_SelectionKept ==
    [][\A k \in 1..Len(TABLE_EDITING_COMMANDS) :
          (Tried(TABLE_EDITING_COMMANDS[k]) /\ pc' # "undefined")
             => /\ selector' = selector
                /\ temp_selector' = temp_selector]_vars

\* [2,2], [set] and drow on the 2x2 table: both selections name row 1 of a
\* table that has only row 0 left
C30_Witness ==
    /\ pc = "exec" /\ i = 3 /\ infile = File22
    /\ c_comm = [function |-> Txt("drow"), arguments |-> NULL]
    /\ table.num_of_rows = 1
    /\ Rect(selector, 1, 1, 1, 1)
    /\ temp_selector.initialized /\ temp_selector.lld_ir1 = 1 /\ temp_selector.lld_ir2 = 1

-----------------------------------------------------------------------------
(* Selections that reach past the table *)

SelectionFunctions ==
    { Txt("set"), Txt("clear"), Txt("swap"), Txt("sum"), Txt("avg"), Txt("count"),
      Txt("len"), Txt("def"), Txt("use") }

\* command c works over the cells of the selection
OverSelection(c) ==
    \/ c.function \in SelectionFunctions
    \/ c.arguments = NULL /\ (IsFind(c.function) \/ c.function \in {Txt("[min]"), Txt("[max]")})

\* C31: a pass of the loop that takes up set, clear, swap, sum, avg, count,
\* len, def, use, find, min or max never reads or writes a cell outside the
\* rows and columns of the table, whatever the commands before it made of
\* the table and of the selections
C31_WithinTable ==
    [][(pc = "exec" /\ c_comm'.function # NULL /\ OverSelection(c_comm'))
          => pc' # "undefined"]_vars

-----------------------------------------------------------------------------
(* Ownership of the cell storage *)

\* no block of cells is held by two rows of table t
SingleOwner(t) ==
    \A p, q \in 1..t.num_of_rows :
        (p # q /\ t.rows[p].cells # 0) => t.rows[p].cells # t.rows[q].cells

\* C32: in every state of a run no block of cells belongs to two rows of the
\* table, every row's block is allocated, and the run has neither released a
\* block twice nor used one after its release
C32_SingleOwner ==
    /\ SingleOwner(table)
    /\ pc \in {"exec", "failed"} => Readable(table)
    /\ pc # "undefined"

-----------------------------------------------------------------------------
(* The cells of a loaded line *)

\* the places of line where the delimiter d stands outside a pair of
\* apostrophes and not behind a backslash
Separators(line, d) ==
    {p \in 1..Len(line) :
        /\ line[p] = d
        /\ Cardinality({q \in 1..(p - 1) : line[q] = "'"}) % 2 = 0
        /\ (p = 1 \/ line[p - 1] # "\\")}

\* the segments of line from place p on, between the separators S
RECURSIVE SegmentsFrom(_, _, _)
SegmentsFrom(line, S, p) ==
    IF \E s \in S : s >= p
    THEN With(CHOOSE s \in S : s >= p /\ \A s2 \in S : s2 >= p => s <= s2, LAMBDA s :
            <<SubSeq(line, p, s - 1)>> \o SegmentsFrom(line, S, s + 1))
    ELSE <<SubSeq(line, p, Len(line))>>

Segments(line, d) == SegmentsFrom(line, Separators(line, d), 1)

\* an input whose lines reach the row parser as they stand: one delimiter,
\* no carriage return
PlainLines(file, dl) == Len(dl) = 1 /\ \A k \in 1..Len(file) : file[k] # "\r"

\* C33: load_table succeeds on every input and makes of every line, also of
\* an empty one and of one that begins with the delimiter, a row with one
\* cell for each segment between two unquoted, unescaped delimiters, the
\* cell holding the segment as it stands, the empty string for an empty one
C33_LineCells ==
    (pc # "start" /\ PlainLines(infile, delims)) =>
        With(load_table(delims, infile, EmptyTable(delims)), LAMBDA l :
            /\ l.ret = NO_ERROR /\ ~l.t.ub
            /\ l.t.num_of_rows = Len(FileLines(infile))
            /\ \A r \in 1..l.t.num_of_rows :
                  RowText(l.t, r) = Segments(FileLines(infile)[r], delims[1]))

-----------------------------------------------------------------------------
(* The scanner on the lines of the input *)

\* the lines of the input as the scanner gets them
ScannedLines(file) == {rm_newline_chars(FileLines(file)[n]) : n \in 1..Len(FileLines(file))}

\* the bytes the scanner is asked for (an apostrophe opens and closes the
\* quoted spans and is left aside)
Targets == {",", ";", "a"}

\* the n-th (0-based) of the places S, -1 when there are not that many
NthOf(S, n) ==
    IF n < 0 \/ n >= Cardinality(S) THEN -1
    ELSE (CHOOSE p \in S : Cardinality({q \in S : q < p}) = n) - 1

\* line with every separator of a secondary delimiter replaced by the primary
Normalized(line, dl) ==
    [p \in 1..Len(line) |->
        IF \E d \in 2..Len(dl) : p \in Separators(line, dl[d]) THEN dl[1] ELSE line[p]]

\* C34: with ignore_escapes false an occurrence of the target byte is a match
\* exactly when it stands outside every quoted span and not behind a
\* backslash, an occurrence at offset 0 included: count_char counts these
\* places, get_position_of_character gives the n-th of them, get_substring
\* cuts the line at them and normalize_delims replaces them
C34_UnescapedMatches ==
    pc # "start" =>
        \A line \in ScannedLines(infile) :
            /\ \A c \in Targets :
                  /\ count_char(line, c, FALSE) = Cardinality(Separators(line, c))
                  /\ \A n \in 0..Len(line) :
                        /\ get_position_of_character(line, c, n, FALSE)
                              = NthOf(Separators(line, c), n)
                        /\ n <= Cardinality(Separators(line, c))
                              => PartIs(get_substring(line, NULL, c, n, FALSE, FALSE).substring,
                                        Segments(line, c)[n + 1])
            /\ normalize_delims(line, delims) = Normalized(line, delims)

\* the places of string that count_char counts for byte c in the mode given
Counted(string, c, ignore_escapes) ==
    {p \in 1..Len(string) :
        count_char(SubSeq(string, 1, p), c, ignore_escapes)
            > count_char(SubSeq(string, 1, p - 1), c, ignore_escapes)}

\* C35: count_char counts at least as many places with ignore_escapes as
\* without; get_position_of_character returns the offset of the n-th
\* (0-based) counted place when 0 <= n < count, and -1 otherwise
C35_CountPosition ==
    pc # "start" =>
        \A line \in ScannedLines(infile) : \A c \in Targets \cup {"'", "\\"} :
            /\ count_char(line, c, TRUE) >= count_char(line, c, FALSE)
            /\ \A mode \in BOOLEAN :
                  /\ Cardinality(Counted(line, c, mode)) = count_char(line, c, mode)
                  /\ \A n \in (-1)..(Len(line) + 1) :
                        get_position_of_character(line, c, n, mode)
                            = NthOf(Counted(line, c, mode), n)

\* a line with an escaped and an unescaped delimiter has been scanned
C35_Witness ==
    /\ pc = "exec"
    /\ <<"\\", ",", "a", ",">> \in ScannedLines(infile)

-----------------------------------------------------------------------------
(* Shape normalization applied twice *)

\* C36: on every table that main has loaded and normalized,
\* normalize_number_of_cols succeeds a second time and leaves the number of
\* rows, the number of columns and the content of every cell as they are
C36_NormalizeIdempotent ==
    pc = "exec" =>
        With(normalize_number_of_cols(table), LAMBDA n :
            /\ n.ret = NO_ERROR /\ ~n.t.ub
            /\ n.t.num_of_rows = table.num_of_rows
            /\ \A r \in 1..table.num_of_rows :
                  n.t.rows[r].num_of_cells = table.rows[r].num_of_cells
            /\ Texts(n.t) = Texts(table))

\* the first normalization padded row 1 and removed two trailing empty columns
C36_Witness ==
    /\ pc = "exec" /\ table.num_of_rows = 2 /\ NumCols(table) = 1
    /\ AsLoaded.rows[1].num_of_cells = 1 /\ AsLoaded.rows[2].num_of_cells = 3

-----------------------------------------------------------------------------
(* Malformed cell arguments *)

\* the parts of string between the occurrences of ch
RECURSIVE PartsAt(_, _)
PartsAt(string, ch) ==
    IF \E p \in 1..Len(string) : string[p] = ch
    THEN With(CHOOSE p \in 1..Len(string) :
                 string[p] = ch /\ \A q \in 1..(p - 1) : string[q] # ch, LAMBDA p :
            <<SubSeq(string, 1, p - 1)>> \o PartsAt(SubSeq(string, p + 1, Len(string)), ch))
    ELSE <<string>>

RECURSIVE DecimalValue(_)
DecimalValue(part) ==
    IF part = <<>> THEN 0
    ELSE 10 * DecimalValue(SubSeq(part, 1, Len(part) - 1)) + DigitVal(part[Len(part)])

\* part is a positive integer in decimal digits, or "-"
IsComponent(part) ==
    \/ part = <<"-">>
    \/ /\ part # <<>>
       /\ \A k \in 1..Len(part) : IsDigit(part[k])
       /\ DecimalValue(part) >= 1

\* the 0-based index that the component stands for, "-" being the last of count
Resolved(part, count) == IF part = <<"-">> THEN count - 1 ELSE DecimalValue(part) - 1

\* arg is [R,C] with two components that name a cell of table t
GoodCellArgument(arg, t) ==
    /\ arg # NULL /\ Len(arg) >= 2 /\ arg[1] = "[" /\ arg[Len(arg)] = "]"
    /\ With(PartsAt(SubSeq(arg, 2, Len(arg) - 1), ","), LAMBDA parts :
          /\ Len(parts) = 2
          /\ IsComponent(parts[1]) /\ IsComponent(parts[2])
          /\ Resolved(parts[1], t.num_of_rows) < t.num_of_rows
          /\ t.num_of_rows > 0
          /\ Resolved(parts[2], NumCols(t)) < NumCols(t))

\* C37: a pass of the loop over swap, sum, avg, count or len whose argument
\* is not [R,C] with two components, each a positive integer or "-", that
\* name a cell of the table, fails with the command error and leaves the
\* table, the selections and the variables as they are; the exit code is 8
C37_BadCellArgument ==
    [][/\ \A fn \in CellFunctions :
            (/\ pc = "exec" /\ temp_var_store' # NoTempVars
             /\ c_comm'.function = Txt(fn)
             /\ ~GoodCellArgument(c_comm'.arguments, table))
                => FailedWith(COMMAND_ERROR)
       /\ ExitsWithError]_vars

-----------------------------------------------------------------------------
(* Unknown commands *)

KnownFunctions ==
    { Txt("irow"), Txt("arow"), Txt("drow"), Txt("icol"), Txt("acol"), Txt("dcol"),
      Txt("set"), Txt("clear"), Txt("swap"), Txt("sum"), Txt("avg"), Txt("count"),
      Txt("len"), Txt("def"), Txt("use"), Txt("inc") }

\* command c is a bracketed selector
Bracketed(c) ==
    c.arguments = NULL /\ c.function[1] = "[" /\ c.function[Len(c.function)] = "]"

\* C38: a pass of the loop over a command that is no bracketed selector and
\* whose function is none of the sixteen command names fails with the
\* command error and leaves the table, both selections and the temporary
\* variables as they are; the exit code is 8
C38_UnknownCommand ==
    [][/\ (/\ pc = "exec" /\ c_comm' # c_comm
           /\ ~Bracketed(c_comm') /\ c_comm'.function \notin KnownFunctions)
              => FailedWith(COMMAND_ERROR)
       /\ (pc = "failed" /\ c_comm.function \notin KnownFunctions /\ ~Bracketed(c_comm))
              => (pc' = "exit" /\ error_flag' = COMMAND_ERROR)]_vars

\* 0 <= r1 <= r2 and 0 <= c1 <= c2, as 0-based corners
WellOrdered(sel) ==
    /\ 0 <= sel.lld_ir1 /\ sel.lld_ir1 <= sel.lld_ir2
    /\ 0 <= sel.lld_ic1 /\ sel.lld_ic1 <= sel.lld_ic2

\* C39: in every state reached during command execution, the states after
\* every row or every column was deleted included, the current and the saved
\* selection both satisfy 0 <= r1 <= r2 and 0 <= c1 <= c2
C39_SelectionsNormal ==
    pc \in {"exec", "failed"} => (WellOrdered(selector) /\ WellOrdered(temp_selector))

\* the text between the brackets of the selector c
Inside(c) == SubSeq(c.function, 2, Len(c.function) - 1)

\* the forms set_selector knows by name instead of by their parts
NamedSelectors == {Txt("_"), Txt("set"), Txt("min"), Txt("max"), Txt("find")}

\* c is a bracketed coordinate selector of 1, 3, 5 or more comma-separated parts
OddParts(c) ==
    /\ c.function # NULL /\ Bracketed(c)
    /\ Inside(c) \notin NamedSelectors
    /\ Len(PartsAt(Inside(c), ",")) \notin {2, 4}

\* C40: a pass of the loop over a bracketed coordinate selector of 1, 3, 5 or
\* more comma-separated parts stays within the four-entry part arrays, fails
\* with the selector error and leaves both selections as they are; the exit
\* code is 9
C40_PartCount ==
    [][/\ (pc = "exec" /\ c_comm' # c_comm /\ OddParts(c_comm'))
              => (pc' # "undefined" /\ FailedWith(SELECTOR_ERROR))
       /\ (pc = "failed" /\ OddParts(c_comm))
              => (pc' = "exit" /\ error_flag' = SELECTOR_ERROR)]_vars
====
